---------------------------- MODULE Spec2Model ----------------------------
(***************************************************************************)
(* A model of hq-go-errors: the error variants root / wrapped / joined,    *)
(* their construction (New, Wrap, Join), the call-stack capture and merge  *)
(* (callers, caller, insertPC) and the chain traversals (Unwrap, Cause,    *)
(* Is, As).                                                                *)
(*                                                                         *)
(* Error values live in `heap`, a sequence of node records; an error       *)
(* reference is an index into heap and NIL is Go's nil.  A node's cause    *)
(* and children always have a smaller index than the node.  Errors of      *)
(* other packages (errors.New, fmt.Errorf("%w")) are nodes of kind         *)
(* "foreign".  `last` records the last library call and what it returned,  *)
(* `made` records, for every node, the call that allocated it.             *)
(***************************************************************************)
EXTENDS Integers, Sequences, FiniteSets, TLC

VARIABLES heap, last, made, mu, goroutine

vars == <<heap, last, made, mu, goroutine>>

(***************************************************************************)
(* Bounds of the model.                                                    *)
(***************************************************************************)
MaxNodes == 3
MaxAsNodes == 4
MaxDepth == 3
MaxArgs == 3
MaxTraceLen == 3

(***************************************************************************)
(* Program constants.                                                      *)
(***************************************************************************)
NIL == 0
depth == 64
callersDepth == 32

Msgs == {"a", "b"}

(***************************************************************************)
(* Program counters.  A goroutine's stack is a sequence of return          *)
(* addresses, innermost frame first.  The library's own call sites are     *)
(* numbered 8xx, the runtime's 9xx, the application's 10*d+1 and 10*d+2.   *)
(***************************************************************************)
PcRuntimeCallers == 900
PcGoexit == 901
PcRuntimeMain == 902
PcDoInit == 903
PcDoInit1 == 904
PcCallers == 801
PcCaller == 802
PcNew == 803
PcWrapInner == 804
PcWrap == 805
PcJoin == 806
PcPkgInit == 7
PcAppDoInit == 8

RuntimePCs == {PcRuntimeCallers, PcGoexit, PcRuntimeMain, PcDoInit, PcDoInit1}

\* runtime.FuncForPC(pc).Name(), and the Function of the runtime.Frame of pc.
FuncName(pc) ==
    CASE pc = PcRuntimeCallers -> "runtime.Callers"
      [] pc = PcGoexit -> "runtime.goexit"
      [] pc = PcRuntimeMain -> "runtime.main"
      [] pc = PcDoInit -> "runtime.doInit"
      [] pc = PcDoInit1 -> "runtime.doInit1"
      [] pc = PcCallers -> "github.com/hueristiq/hq-go-errors.callers"
      [] pc = PcCaller -> "github.com/hueristiq/hq-go-errors.caller"
      [] pc = PcNew -> "github.com/hueristiq/hq-go-errors.New"
      [] pc = PcWrapInner -> "github.com/hueristiq/hq-go-errors.wrap"
      [] pc = PcWrap -> "github.com/hueristiq/hq-go-errors.Wrap"
      [] pc = PcJoin -> "github.com/hueristiq/hq-go-errors.Join"
      [] pc = PcPkgInit -> "main.init"
      [] pc = PcAppDoInit -> "example.com/app/runtime.DoInit"
      [] pc = 0 -> ""
      [] OTHER -> "main.fn"

\* strings.HasPrefix(fn.Name(), "runtime.")
HasRuntimePrefix(pc) == pc \in RuntimePCs

\* The name after the last "/" (stack.go resolveToStackFrames).
TrimmedName(pc) ==
    CASE pc = PcCallers -> "hq-go-errors.callers"
      [] pc = PcCaller -> "hq-go-errors.caller"
      [] pc = PcNew -> "hq-go-errors.New"
      [] pc = PcWrapInner -> "hq-go-errors.wrap"
      [] pc = PcWrap -> "hq-go-errors.Wrap"
      [] pc = PcJoin -> "hq-go-errors.Join"
      [] pc = PcAppDoInit -> "runtime.DoInit"
      [] OTHER -> FuncName(pc)

\* strings.EqualFold(name, "runtime.doinit")
EqualFoldDoinit(name) == name \in {"runtime.doinit", "runtime.doInit", "runtime.DoInit"}

(***************************************************************************)
(* Application call stacks.  Function d (1 = main.main) calls the library  *)
(* at LibSite(d) and function d+1 at CallSite(d).                          *)
(***************************************************************************)
LibSite(d) == 10 * d + 2
CallSite(d) == 10 * d + 1

\* The function an address lies in: application function d for its two call
\* sites, and a function of its own for every other address.
FuncOf(p) == IF p >= 10 /\ p < 800 THEN p \div 10 ELSE p

RECURSIVE CallChain(_)
CallChain(d) == IF d = 0 THEN <<>> ELSE <<CallSite(d)>> \o CallChain(d - 1)

\* The library called from function d, d - 1 callers above it, under runtime.main.
MainStack(d) == <<LibSite(d)>> \o CallChain(d - 1) \o <<PcRuntimeMain, PcGoexit>>

\* The library function started as a goroutine of its own (go Wrap(...)).
GoStack == <<PcGoexit>>

\* The library called while package-level variables are initialised.
InitStack == <<PcPkgInit, PcDoInit1, PcDoInit, PcRuntimeMain, PcGoexit>>

\* The library called from a function that DoInit of the application's package
\* example.com/app/runtime calls, itself called from main.main.
AppInitStack == <<LibSite(3), PcAppDoInit, CallSite(1), PcRuntimeMain, PcGoexit>>

Stacks == {MainStack(d) : d \in 1..MaxDepth} \cup {GoStack, InitStack}

(***************************************************************************)
(* stack.go                                                                *)
(***************************************************************************)
Min(a, b) == IF a < b THEN a ELSE b

\* q back to front.
Reverse(q) == [i \in 1..Len(q) |-> q[Len(q) + 1 - i]]

\* runtime.Callers(skip, pcs[:n]): skip frames are dropped (frame 0 is Callers
\* itself), then at most n return addresses are recorded.
RuntimeCallers(skip, n, stk) ==
    IF skip >= Len(stk) THEN <<>>
    ELSE SubSeq(stk, skip + 1, Min(Len(stk), skip + n))

RECURSIVE FilterRuntime(_)
FilterRuntime(pcs) ==
    IF pcs = <<>> THEN <<>>
    ELSE IF HasRuntimePrefix(Head(pcs)) THEN FilterRuntime(Tail(pcs))
    ELSE <<Head(pcs)>> \o FilterRuntime(Tail(pcs))

\* callers(skip), called with the goroutine's stack stk below the callers frame.
callers(skip, stk) ==
    FilterRuntime(RuntimeCallers(skip + 1, depth, <<PcRuntimeCallers, PcCallers>> \o stk))

\* caller(skip): the raw pc of the first recorded frame, NIL for a nil *frame.
caller(skip, stk) ==
    LET pcs == RuntimeCallers(skip + 2, callersDepth, <<PcRuntimeCallers, PcCaller>> \o stk)
    IN IF pcs = <<>> THEN NIL ELSE pcs[1]

\* frame.pc()
pc(f) == f - 1

\* The StackFrame runtime.CallersFrames resolves for return address p: the name
\* after the last "/" and the line of the call, which differs from address to
\* address; the zero StackFrame for no address.
StackFrame(name, line) == [Name |-> name, Line |-> line]

\* stack.resolveToStackFrames.  The loop body runs once before `more` is
\* tested, so an empty stack yields one zero frame.
resolveToStackFrames(s) ==
    IF s = <<>> THEN <<StackFrame("", 0)>>
    ELSE [i \in 1..Len(s) |-> StackFrame(TrimmedName(s[i]), s[i])]

\* frame.resolveToStackFrame: the frame of the address frame.pc() gives, which
\* lies in the same function one instruction back.
resolveToStackFrame(f) == StackFrame(TrimmedName(f), pc(f))

\* stack.isGlobal
isGlobal(s) ==
    LET frames == resolveToStackFrames(s)
    IN \E i \in 1..Len(frames) : EqualFoldDoinit(frames[i].Name)

\* The least index of s holding wrapPCs[1] or wrapPCs[2], 0 if there is none.
RECURSIVE FirstHit(_, _, _)
FirstHit(s, wrapPCs, i) ==
    IF i > Len(s) THEN 0
    ELSE IF s[i] = wrapPCs[1] \/ s[i] = wrapPCs[2] THEN i
    ELSE FirstHit(s, wrapPCs, i + 1)

insertPC_Overwrite(s, wrapPCs) ==
    IF Len(wrapPCs) < 1 THEN s
    ELSE IF Len(wrapPCs) = 1 THEN Append(s, wrapPCs[1])
    ELSE LET i == FirstHit(s, wrapPCs, 1)
         IN IF i = 0 THEN s
            ELSE IF s[i] = wrapPCs[1] THEN s
            ELSE SubSeq(s, 1, i - 1) \o <<wrapPCs[1]>> \o SubSeq(s, i + 1, Len(s))

insertPC_NoFirstCheck(s, wrapPCs) ==
    IF Len(wrapPCs) < 1 THEN s
    ELSE IF Len(wrapPCs) = 1 THEN Append(s, wrapPCs[1])
    ELSE LET i == FirstHit(s, <<wrapPCs[2], wrapPCs[2]>>, 1)
         IN IF i = 0 THEN s
            ELSE SubSeq(s, 1, i - 1) \o <<wrapPCs[1]>> \o SubSeq(s, i, Len(s))

insertPC_AfterMatch(s, wrapPCs) ==
    IF Len(wrapPCs) < 1 THEN s
    ELSE IF Len(wrapPCs) = 1 THEN Append(s, wrapPCs[1])
    ELSE LET i == FirstHit(s, wrapPCs, 1)
         IN IF i = 0 THEN s
            ELSE IF s[i] = wrapPCs[1] THEN s
            ELSE SubSeq(s, 1, i) \o <<wrapPCs[1]>> \o SubSeq(s, i + 1, Len(s))

\* stack.insertPC: the new value of *s.
insertPC(s, wrapPCs) ==
    IF Len(wrapPCs) < 1 THEN s
    ELSE IF Len(wrapPCs) = 1 THEN Append(s, wrapPCs[1])
    ELSE LET i == FirstHit(s, wrapPCs, 1)
         IN IF i = 0 THEN s
            ELSE IF s[i] = wrapPCs[1] THEN s
            ELSE SubSeq(s, 1, i - 1) \o <<wrapPCs[1]>> \o SubSeq(s, i, Len(s))

(***************************************************************************)
(* Error values.  One record shape serves the three variants and foreign   *)
(* errors; a field a variant does not have holds its zero value.           *)
(***************************************************************************)
EmptyKV == [k \in {} |-> ""]

\* A nil map[string]any.
NilFields == [isNil |-> TRUE, kv |-> EmptyKV]

\* &root{isGlobal: g, errType: t, message: msg, fields: f, cause: c, trace: tr}
root(g, t, msg, f, c, tr) ==
    [kind |-> "root", isGlobal |-> g, errType |-> t, message |-> msg, fields |-> f,
     cause |-> c, trace |-> tr, frame |-> NIL, errors |-> <<>>, cmp |-> TRUE]

\* &wrapped{message: msg, cause: c, frame: fr}
wrapped(msg, c, fr) ==
    [kind |-> "wrapped", isGlobal |-> FALSE, errType |-> "", message |-> msg,
     fields |-> NilFields, cause |-> c, trace |-> <<>>, frame |-> fr, errors |-> <<>>,
     cmp |-> TRUE]

\* &joined{isGlobal: g, errors: errs, trace: tr}
joined(g, errs, tr) ==
    [kind |-> "joined", isGlobal |-> g, errType |-> "", message |-> "",
     fields |-> NilFields, cause |-> NIL, trace |-> tr, frame |-> NIL, errors |-> errs,
     cmp |-> TRUE]

\* An error of another package: errors.New (c = NIL) or fmt.Errorf("%w", c), of a
\* comparable dynamic type (a pointer) or not (a struct holding a slice).
foreign(comparable, c) ==
    [kind |-> "foreign", isGlobal |-> FALSE, errType |-> "", message |-> "x",
     fields |-> NilFields, cause |-> c, trace |-> <<>>, frame |-> NIL, errors |-> <<>>,
     cmp |-> comparable]

Refs(h) == 0..Len(h)

\* root.SetType / wrapped.SetType on a non-nil receiver
SetType(n, errType) == [n EXCEPT !.errType = errType]

\* root.SetField / wrapped.SetField on a non-nil receiver
SetField(n, key, value) ==
    [n EXCEPT !.fields =
        [isNil |-> FALSE,
         kv |-> [k \in DOMAIN n.fields.kv \cup {key} |->
                    IF k = key THEN value ELSE n.fields.kv[k]]]]

\* WithType(t) and WithField(k, v): the OptionFunc values.
WithType(errType) == [opt |-> "WithType", key |-> "", value |-> errType]
WithField(key, value) == [opt |-> "WithField", key |-> key, value |-> value]

\* f(e) for an OptionFunc f and a non-nil Error e.
ApplyOption(n, f) ==
    IF f.opt = "WithType" THEN SetType(n, f.value) ELSE SetField(n, f.key, f.value)

\* for _, f := range ofs { f(e) }
RECURSIVE ApplyOptions(_, _)
ApplyOptions(n, ofs) ==
    IF ofs = <<>> THEN n ELSE ApplyOptions(ApplyOption(n, Head(ofs)), Tail(ofs))

OptLists == {<<>>, <<WithType("T"), WithField("k", "v")>>}

(***************************************************************************)
(* Unwrap and Cause.                                                       *)
(***************************************************************************)
\* err.(interface{ Unwrap() error }) succeeds
HasUnwrap(h, e) ==
    /\ e # NIL
    /\ \/ h[e].kind \in {"root", "wrapped"}
       \/ h[e].kind = "foreign" /\ h[e].cause # NIL

Unwrap_Children(h, e) ==
    IF e = NIL THEN NIL
    ELSE IF h[e].kind = "joined" THEN h[e].errors[1]
    ELSE h[e].cause

\* Unwrap(err)
Unwrap(h, e) == IF HasUnwrap(h, e) THEN h[e].cause ELSE NIL

\* Cause(err)
RECURSIVE Cause(_, _)
Cause(h, e) ==
    LET uerr == Unwrap(h, e)
    IN IF uerr = NIL THEN e ELSE Cause(h, uerr)

(***************************************************************************)
(* New, Wrap, Join.                                                        *)
(***************************************************************************)
\* The stack below the runtime.Callers frames when wrap captures, for a call
\* of Wrap made with the goroutine's stack stk.
WrapStack(stk) == <<PcWrapInner, PcWrap>> \o stk

wrapMerge_InPlace(h, c, trace) ==
    LET r == Cause(h, c)
    IN [heap |-> IF h[r].kind = "root"
                 THEN [h EXCEPT ![r].trace = insertPC(h[r].trace, trace)]
                 ELSE h,
        cause |-> c]

wrapMerge_Replace(h, c, trace) ==
    LET r == Cause(h, c)
    IN [heap |-> IF h[r].kind = "root"
                 THEN [h EXCEPT ![r].trace = trace]
                 ELSE h,
        cause |-> c]

\* wrap's switch, cases *root and *wrapped: the heap after the merge of the
\* captured trace and the cause the new wrapped node is built against.
wrapMerge(h, c, trace) ==
    IF h[c].kind = "root"
    THEN IF h[c].isGlobal
         THEN [heap |-> Append(h, root(h[c].isGlobal, h[c].errType, h[c].message,
                                       h[c].fields, h[c].cause, trace)),
               cause |-> Len(h) + 1]
         ELSE [heap |-> [h EXCEPT ![c].trace = insertPC(h[c].trace, trace)],
               cause |-> c]
    ELSE LET r == Cause(h, c)
         IN [heap |-> IF h[r].kind = "root"
                      THEN [h EXCEPT ![r].trace = insertPC(h[r].trace, trace)]
                      ELSE h,
             cause |-> c]

wrapDefault_AsWrapped(h, c, msg, trace) ==
    [heap |-> Append(h, wrapped(msg, c, NIL)), ret |-> Len(h) + 1]

\* wrap's switch, default case: a new root whose cause is the foreign error.
wrapDefault(h, c, msg, trace) ==
    [heap |-> Append(h, root(FALSE, "", msg, NilFields, c, trace)), ret |-> Len(h) + 1]

wrapNode_AgainstRoot(h, c, msg, fr) ==
    [heap |-> Append(h, wrapped(msg, Cause(h, c), fr)), ret |-> Len(h) + 1]

wrapNode_SelfCause(h, c, msg, fr) ==
    [heap |-> Append(h, wrapped(msg, Len(h) + 1, fr)), ret |-> Len(h) + 1]

\* err = &wrapped{message: msg, cause: cause, frame: frame}
wrapNode(h, c, msg, fr) ==
    [heap |-> Append(h, wrapped(msg, c, fr)), ret |-> Len(h) + 1]

\* wrap(cause, msg), called from Wrap with the goroutine's stack stk below the
\* Wrap frame: the heap after the call and the value returned.
wrap(h, c, msg, stk) ==
    IF c = NIL THEN [heap |-> h, ret |-> NIL]
    ELSE
      LET trace == callers(4, WrapStack(stk))
          fr == caller(3, WrapStack(stk))
      IN IF h[c].kind \in {"root", "wrapped"}
         THEN LET m == wrapMerge(h, c, trace)
              IN wrapNode(m.heap, m.cause, msg, fr)
         ELSE wrapDefault(h, c, msg, trace)

\* The record of the last library call: its operation, arguments, the value it
\* returned, whether it panicked, and the number of nodes before it.
Call(op, args, msg, ofs, stk, ret, fault, pre) ==
    [op |-> op, args |-> args, msg |-> msg, ofs |-> ofs, stk |-> stk, ret |-> ret,
     fault |-> fault, pre |-> pre]

\* made for a heap grown to h2: each new node records the call that allocated
\* it, its argument and the trace it was allocated with; the copy wrap makes of
\* a global root is marked "copy".
Record(h2, op, arg) ==
    [i \in 1..Len(h2) |->
        IF i <= Len(made) THEN made[i]
        ELSE [op |-> IF i = Len(h2) THEN op ELSE "copy", arg |-> arg,
              trace0 |-> h2[i].trace]]

\* New(msg, ofs...)
New(msg, ofs, stk) ==
    LET trace == callers(3, <<PcNew>> \o stk)
        e == root(isGlobal(trace), "", msg, NilFields, NIL, trace)
    IN /\ heap' = Append(heap, ApplyOptions(e, ofs))
       /\ last' = Call("New", <<>>, msg, ofs, stk, Len(heap) + 1, FALSE, Len(heap))
       /\ made' = Record(heap', "New", NIL)
       /\ UNCHANGED <<mu, goroutine>>

Wrap_OptionsOnCause(c, msg, ofs, stk) ==
    LET w == wrap(heap, c, msg, stk)
    IN /\ IF w.ret = NIL
          THEN /\ heap' = heap
               /\ last' = Call("Wrap", <<c>>, msg, ofs, stk, NIL, ofs # <<>>, Len(heap))
          ELSE /\ heap' = [w.heap EXCEPT ![c] = ApplyOptions(w.heap[c], ofs)]
               /\ last' = Call("Wrap", <<c>>, msg, ofs, stk, w.ret, FALSE, Len(heap))
       /\ made' = Record(heap', "Wrap", c)
       /\ UNCHANGED <<mu, goroutine>>

\* Wrap(cause, msg, ofs...).  With a nil cause w is the nil interface, and an
\* option called on it dereferences nil: the call panics.
Wrap(c, msg, ofs, stk) ==
    LET w == wrap(heap, c, msg, stk)
    IN /\ IF w.ret = NIL
          THEN /\ heap' = heap
               /\ last' = Call("Wrap", <<c>>, msg, ofs, stk, NIL, ofs # <<>>, Len(heap))
          ELSE /\ heap' = [w.heap EXCEPT ![w.ret] = ApplyOptions(w.heap[w.ret], ofs)]
               /\ last' = Call("Wrap", <<c>>, msg, ofs, stk, w.ret, FALSE, Len(heap))
       /\ made' = Record(heap', "Wrap", c)
       /\ UNCHANGED <<mu, goroutine>>

\* The non-nil elements of errs, in order.
RECURSIVE NonNil(_)
NonNil(errs) ==
    IF errs = <<>> THEN <<>>
    ELSE IF Head(errs) # NIL THEN <<Head(errs)>> \o NonNil(Tail(errs))
    ELSE NonNil(Tail(errs))

JoinResult_KeepNil(h, errs, stk) ==
    IF Len(errs) = 0 THEN [heap |-> h, ret |-> NIL]
    ELSE IF Len(errs) = 1 THEN [heap |-> h, ret |-> errs[1]]
    ELSE LET trace == callers(3, <<PcJoin>> \o stk)
         IN [heap |-> Append(h, joined(isGlobal(trace), errs, trace)),
             ret |-> Len(h) + 1]

\* Join(errs...): the heap after the call and the value returned.
JoinResult(h, errs, stk) ==
    LET nonNilErrs == NonNil(errs)
    IN IF Len(nonNilErrs) = 0 THEN [heap |-> h, ret |-> NIL]
       ELSE IF Len(nonNilErrs) = 1 THEN [heap |-> h, ret |-> nonNilErrs[1]]
       ELSE LET trace == callers(3, <<PcJoin>> \o stk)
            IN [heap |-> Append(h, joined(isGlobal(trace), nonNilErrs, trace)),
                ret |-> Len(h) + 1]

Join(errs, stk) ==
    LET j == JoinResult(heap, errs, stk)
    IN /\ heap' = j.heap
       /\ last' = Call("Join", errs, "", <<>>, stk, j.ret, FALSE, Len(heap))
       /\ made' = Record(heap', "Join", NIL)
       /\ UNCHANGED <<mu, goroutine>>

\* An error made outside the library.
External(comparable, c) ==
    /\ heap' = Append(heap, foreign(comparable, c))
    /\ last' = Call("External", <<c>>, "", <<>>, <<>>, Len(heap) + 1, FALSE, Len(heap))
    /\ made' = Record(heap', "External", c)
    /\ UNCHANGED <<mu, goroutine>>

(***************************************************************************)
(* Is.                                                                     *)
(***************************************************************************)
\* reflect.TypeOf(target).Comparable()
Comparable(h, target) == h[target].cmp

rootIs_Identity(h, e, target) == e = target

\* root.Is(target) for non-nil e and target
rootIs(h, e, target) ==
    IF h[target].kind = "root"
    THEN /\ h[target].errType = "" \/ h[e].errType = h[target].errType
         /\ h[e].message = h[target].message
    ELSE FALSE

\* wrapped.Is(target) for non-nil e and target
wrappedIs(h, e, target) ==
    IF h[target].kind = "wrapped"
    THEN /\ h[target].errType = "" \/ h[e].errType = h[target].errType
         /\ h[e].message = h[target].message
    ELSE FALSE

\* err.(interface{ Is(error) bool }) succeeds
HasIs(h, e) == h[e].kind \in {"root", "wrapped", "joined"}

is_NoUnwrap(h, err, target, isComparable) ==
    \/ isComparable /\ err = target
    \/ h[err].kind = "root" /\ rootIs(h, err, target)
    \/ h[err].kind = "wrapped" /\ wrappedIs(h, err, target)

RECURSIVE is(_, _, _, _)
RECURSIVE Is(_, _, _)
RECURSIVE joinedIs(_, _, _)

\* is(err, target, isComparable), err and target non-nil
is(h, err, target, isComparable) ==
    IF isComparable /\ err = target THEN TRUE
    ELSE IF HasIs(h, err) /\
            (CASE h[err].kind = "root" -> rootIs(h, err, target)
               [] h[err].kind = "wrapped" -> wrappedIs(h, err, target)
               [] OTHER -> joinedIs(h, err, target))
    THEN TRUE
    ELSE IF HasUnwrap(h, err)
    THEN IF h[err].cause = NIL THEN FALSE
         ELSE is(h, h[err].cause, target, isComparable)
    ELSE IF h[err].kind = "joined"
    THEN \E i \in 1..Len(h[err].errors) : is(h, h[err].errors[i], target, isComparable)
    ELSE FALSE

\* Is(err, target)
Is(h, err, target) ==
    IF err = NIL \/ target = NIL THEN err = target
    ELSE is(h, err, target, Comparable(h, target))

\* joined.Is(target) for non-nil e and target
joinedIs(h, e, target) ==
    \E i \in 1..Len(h[e].errors) : Is(h, h[e].errors[i], target)

(***************************************************************************)
(* As.  A target is what the caller passes as `target any`: untyped nil, a *)
(* value that is not a pointer, a nil pointer, or a pointer to a variable  *)
(* of type elem that holds val.                                            *)
(***************************************************************************)
InterfaceTypes == {"error", "Error", "any", "Stringer"}

ErrorTypes == {"*root", "*wrapped", "*joined", "*foreign"}

PointeeTypes == InterfaceTypes \cup ErrorTypes \cup {"int"}

NilTarget == [kind |-> "nil", elem |-> "", val |-> NIL]

ValueTarget == [kind |-> "value", elem |-> "", val |-> NIL]

NilPtr(T) == [kind |-> "nilptr", elem |-> T, val |-> NIL]

Ptr(T, v) == [kind |-> "ptr", elem |-> T, val |-> v]

\* reflect.TypeOf(err)
TypeOf(h, e) ==
    CASE h[e].kind = "root" -> "*root"
      [] h[e].kind = "wrapped" -> "*wrapped"
      [] h[e].kind = "joined" -> "*joined"
      [] OTHER -> "*foreign"

\* currentType.AssignableTo(targetType): the type itself, an interface every
\* error has (error, any), or Error, which *root and *wrapped implement.
AssignableTo(currentType, targetType) ==
    \/ currentType = targetType
    \/ targetType \in {"error", "any"}
    \/ targetType = "Error" /\ currentType \in {"*root", "*wrapped"}

\* The result of a call that has examined the nodes `visited`.
AsResult(ok, val, visited) == [ok |-> ok, val |-> val, visited |-> visited]

\* root.As(target) and wrapped.As(target) on a non-nil receiver
nodeAs(h, e, t, visited) ==
    IF t.kind # "ptr" THEN AsResult(FALSE, t.val, visited)
    ELSE IF AssignableTo(TypeOf(h, e), t.elem) THEN AsResult(TRUE, e, visited)
    ELSE AsResult(FALSE, t.val, visited)

RECURSIVE as(_, _, _, _)
RECURSIVE As(_, _, _, _)
RECURSIVE asEach(_, _, _, _, _, _)

\* The loops over a joined node's children, from child i on: joined.As calls As
\* on each (public), as's switch calls as on each non-nil one.
asEach(h, errs, i, t, visited, public) ==
    IF i > Len(errs) THEN AsResult(FALSE, t.val, visited)
    ELSE LET r == IF public THEN As(h, errs[i], t, visited)
                  ELSE IF errs[i] = NIL THEN AsResult(FALSE, t.val, visited)
                  ELSE as(h, errs[i], t, visited)
         IN IF r.ok THEN r ELSE asEach(h, errs, i + 1, t, r.visited, public)

joinedAs_LastFirst(h, e, t, visited) == asEach(h, Reverse(h[e].errors), 1, t, visited, TRUE)

\* joined.As(target)
joinedAs(h, e, t, visited) == asEach(h, h[e].errors, 1, t, visited, TRUE)

\* as(err, target, targetVal, targetType), err non-nil
as(h, err, t, visited) ==
    LET seen == Append(visited, err)
    IN IF AssignableTo(TypeOf(h, err), t.elem) THEN AsResult(TRUE, err, seen)
       ELSE LET x == CASE h[err].kind \in {"root", "wrapped"} -> nodeAs(h, err, t, seen)
                       [] h[err].kind = "joined" -> joinedAs(h, err, t, seen)
                       [] OTHER -> AsResult(FALSE, t.val, seen)
            IN IF x.ok THEN x
               ELSE IF HasUnwrap(h, err)
               THEN IF h[err].cause = NIL THEN AsResult(FALSE, t.val, x.visited)
                    ELSE as(h, h[err].cause, t, x.visited)
               ELSE IF h[err].kind = "joined"
               THEN asEach(h, h[err].errors, 1, t, x.visited, FALSE)
               ELSE AsResult(FALSE, t.val, x.visited)

As_NoElemCheck(h, err, t, visited) ==
    IF t.kind = "nil" \/ err = NIL THEN AsResult(FALSE, t.val, visited)
    ELSE IF t.kind # "ptr" THEN AsResult(FALSE, t.val, visited)
    ELSE as(h, err, t, visited)

\* As(err, target), entered having examined the nodes `visited`
As(h, err, t, visited) ==
    IF t.kind = "nil" \/ err = NIL THEN AsResult(FALSE, t.val, visited)
    ELSE IF t.kind # "ptr" THEN AsResult(FALSE, t.val, visited)
    ELSE IF t.elem \notin InterfaceTypes /\ t.elem \notin ErrorTypes
    THEN AsResult(FALSE, t.val, visited)
    ELSE as(h, err, t, visited)

(***************************************************************************)
(* Unpack.                                                                 *)
(***************************************************************************)
\* ErrPart{Message, Type, Fields, Stack}; Stack <<>> is the nil Stack.
ErrPart(msg, errType, fields, stack) ==
    [Message |-> msg, Type |-> errType, Fields |-> fields, Stack |-> stack]

\* The zero ErrPart.
ZeroPart == ErrPart("", "", NilFields, <<>>)

\* UnpackedError{ErrExternal, ErrRoot, ErrChain, ErrJoined}
UnpackedError(external, rootPart, chain, joinedErrs) ==
    [ErrExternal |-> external, ErrRoot |-> rootPart, ErrChain |-> chain,
     ErrJoined |-> joinedErrs]

Unpack_Prepend(chain, part) == <<part>> \o chain

\* uerr.ErrChain = append(uerr.ErrChain, part)
UnpackPush(chain, part) == Append(chain, part)

\* Unpack's loop from err on, having filled uerr so far.
RECURSIVE UnpackLoop(_, _, _)
UnpackLoop(h, err, uerr) ==
    IF err = NIL THEN uerr
    ELSE IF h[err].kind = "root"
    THEN UnpackLoop(h, Unwrap(h, err),
             [uerr EXCEPT !.ErrRoot =
                 ErrPart(h[err].message, h[err].errType, h[err].fields,
                         resolveToStackFrames(h[err].trace))])
    ELSE IF h[err].kind = "wrapped"
    THEN UnpackLoop(h, Unwrap(h, err),
             [uerr EXCEPT !.ErrChain =
                 UnpackPush(uerr.ErrChain,
                     ErrPart(h[err].message, h[err].errType, h[err].fields,
                             IF h[err].frame # NIL
                             THEN <<resolveToStackFrame(h[err].frame)>> ELSE <<>>))])
    ELSE [uerr EXCEPT !.ErrExternal = err]

Unpack_NoJoinedCase(h, err) == UnpackLoop(h, err, UnpackedError(NIL, ZeroPart, <<>>, <<>>))

\* Unpack(err)
Unpack(h, err) ==
    IF err # NIL /\ h[err].kind = "joined"
    THEN UnpackedError(NIL, ZeroPart, <<>>, h[err].errors)
    ELSE UnpackLoop(h, err, UnpackedError(NIL, ZeroPart, <<>>, <<>>))

(***************************************************************************)
(* Text.  A Go string is modelled as the sequence of its lines, a line as  *)
(* the sequence of the pieces written to it; "" is one empty line.         *)
(***************************************************************************)
EmptyString == <<<<>>>>

\* A string without a newline, made of the given pieces.
Str(pieces) == <<pieces>>

\* a + b
Cat(a, b) == SubSeq(a, 1, Len(a) - 1) \o <<a[Len(a)] \o b[1]>> \o Tail(b)

\* %d of a natural number, digit by digit.
Digits == <<"0", "1", "2", "3", "4", "5", "6", "7", "8", "9">>

RECURSIVE Itoa(_)
Itoa(n) == IF n < 10 THEN <<Digits[n + 1]>> ELSE Itoa(n \div 10) \o <<Digits[(n % 10) + 1]>>

\* "\n" and "\n\n"
NewLine == <<<<>>, <<>>>>
BlankLine == <<<<>>, <<>>, <<>>>>

\* strings.Join(parts, sep)
RECURSIVE StringsJoin(_, _)
StringsJoin(parts, sep) ==
    IF parts = <<>> THEN EmptyString
    ELSE IF Len(parts) = 1 THEN parts[1]
    ELSE Cat(parts[1], Cat(sep, StringsJoin(Tail(parts), sep)))

\* err.Error() for a non-nil error: message, then ": " and the cause's text;
\* a joined error gives its children's texts, one per line.
RECURSIVE ErrorText(_, _)
ErrorText(h, e) ==
    IF h[e].kind = "joined"
    THEN StringsJoin([i \in 1..Len(h[e].errors) |-> ErrorText(h, h[e].errors[i])], NewLine)
    ELSE IF h[e].cause # NIL
    THEN Cat(Str(<<h[e].message, ": ">>), ErrorText(h, h[e].cause))
    ELSE Str(<<h[e].message>>)

(***************************************************************************)
(* Formatter.                                                              *)
(***************************************************************************)
\* FormatterOptions; NewFormatter's defaults.
FormatterOptions(innerFirst, withTrace, invertTrace, withExternal) ==
    [IsInnerFirst |-> innerFirst, WithTrace |-> withTrace, InvertTrace |-> invertTrace,
     WithExternal |-> withExternal, Spacing |-> " ", Indentation |-> "  "]

DefaultOptions == FormatterOptions(FALSE, FALSE, FALSE, TRUE)

\* len(part.Fields)
FieldCount(fields) == Cardinality(DOMAIN fields.kv)

\* The "\n<indent>k:<spacing>v" pieces of the keys in ks, in the order range
\* yields them.
RECURSIVE FieldLines(_, _, _)
FieldLines(o, fields, ks) ==
    IF ks = {} THEN EmptyString
    ELSE LET k == CHOOSE x \in ks : TRUE
         IN Cat(Cat(NewLine, Str(<<o.Indentation, k, ":", o.Spacing, fields.kv[k]>>)),
                FieldLines(o, fields, ks \ {k}))

\* The "\n<indent>name<spacing>(file:line)" pieces of the frames from i on.
RECURSIVE FrameLines(_, _, _)
FrameLines(o, frames, i) ==
    IF i > Len(frames) THEN EmptyString
    ELSE Cat(Cat(NewLine, Str(<<o.Indentation, frames[i].Name, o.Spacing, "(">> \o
                                Itoa(frames[i].Line) \o <<")">>)),
             FrameLines(o, frames, i + 1))

\* Formatter.formatPartString
formatPartString(o, part, kind) ==
    LET head == IF part.Type # "" THEN Str(<<"[", part.Type, "]", o.Spacing>>)
                ELSE EmptyString
        msg == Cat(head, Str(<<part.Message>>))
        withFields == IF FieldCount(part.Fields) > 0
                      THEN Cat(Cat(msg, Cat(BlankLine, Str(<<"Fields:">>))),
                               FieldLines(o, part.Fields, DOMAIN part.Fields.kv))
                      ELSE msg
    IN IF o.WithTrace /\ Len(part.Stack) > 0
       THEN Cat(Cat(withFields, Cat(BlankLine, Str(<<kind, " Trace:">>))),
                FrameLines(o, part.Stack, 1))
       ELSE withFields

\* Formatter.formatExternalString: %+v of an error without a Format method is
\* its Error() text.
formatExternalString(h, o, err) == ErrorText(h, err)

\* Formatter.hasRootContent
hasRootContent(rootPart) == rootPart.Message # "" \/ Len(rootPart.Stack) > 0

\* Formatter.isOnlyExternal
isOnlyExternal(unpacked) ==
    /\ unpacked.ErrExternal # NIL
    /\ unpacked.ErrRoot.Message = ""
    /\ Len(unpacked.ErrChain) = 0

ChainStringParts_NoReverse(h, o, unpacked) ==
    LET external == IF unpacked.ErrExternal # NIL /\
                       (o.WithExternal \/ isOnlyExternal(unpacked))
                    THEN <<formatExternalString(h, o, unpacked.ErrExternal)>> ELSE <<>>
        rootPart == IF hasRootContent(unpacked.ErrRoot)
                    THEN <<formatPartString(o, unpacked.ErrRoot, "root")>> ELSE <<>>
        chain == [i \in 1..Len(unpacked.ErrChain) |->
                     formatPartString(o, unpacked.ErrChain[i], "wrap")]
    IN IF o.IsInnerFirst THEN external \o rootPart \o chain
       ELSE chain \o rootPart \o external

\* The parts formatChainString collects, in order.
ChainStringParts(h, o, unpacked) ==
    LET external == IF unpacked.ErrExternal # NIL /\
                       (o.WithExternal \/ isOnlyExternal(unpacked))
                    THEN <<formatExternalString(h, o, unpacked.ErrExternal)>> ELSE <<>>
        rootPart == IF hasRootContent(unpacked.ErrRoot)
                    THEN <<formatPartString(o, unpacked.ErrRoot, "root")>> ELSE <<>>
        chain == [i \in 1..Len(unpacked.ErrChain) |->
                     formatPartString(o, unpacked.ErrChain[i], "wrap")]
    IN IF o.IsInnerFirst THEN external \o rootPart \o Reverse(chain)
       ELSE chain \o rootPart \o external

\* Formatter.formatChainString
formatChainString(h, o, err) == StringsJoin(ChainStringParts(h, o, Unpack(h, err)), BlankLine)

\* Formatter.formatJoinedString and Formatter.String, which call each other.
RECURSIVE String(_, _, _)
RECURSIVE JoinedItems(_, _, _, _)
JoinedItems(h, o, errs, i) ==
    IF i > Len(errs) THEN EmptyString
    ELSE IF errs[i] = NIL THEN JoinedItems(h, o, errs, i + 1)
    ELSE Cat(Cat(BlankLine, Cat(Str(Itoa(i) \o <<". ">>), String(h, o, errs[i]))),
             JoinedItems(h, o, errs, i + 1))

formatJoinedString(h, o, e) ==
    LET frames == resolveToStackFrames(h[e].trace)
        head == Str(<<"Multiple errors (">> \o Itoa(Len(h[e].errors)) \o <<"):">>)
        loc == IF o.WithTrace /\ Len(frames) > 0
               THEN Cat(Cat(BlankLine, Str(<<"Join Location:">>)),
                        FrameLines(o, <<frames[1]>>, 1))
               ELSE EmptyString
    IN Cat(Cat(head, loc), JoinedItems(h, o, h[e].errors, 1))

String(h, o, err) ==
    IF err = NIL THEN EmptyString
    ELSE IF h[err].kind = "joined" THEN formatJoinedString(h, o, err)
    ELSE formatChainString(h, o, err)

\* A map[string]any: nil, or a function from its keys.
NilMap == [isNil |-> TRUE, m |-> EmptyKV]
MakeMap(m) == [isNil |-> FALSE, m |-> m]

\* The map entries of one frame.
FrameMap(frame) == [function |-> frame.Name, line |-> frame.Line]

\* Formatter.formatPartJSON
formatPartJSON(o, part) ==
    LET frames == [i \in 1..Len(part.Stack) |-> FrameMap(part.Stack[i])]
        stack == IF o.InvertTrace THEN Reverse(frames) ELSE frames
    IN MakeMap(("message" :> part.Message)
        @@ (IF part.Type # "" THEN "type" :> part.Type ELSE EmptyKV)
        @@ (IF FieldCount(part.Fields) > 0 THEN "fields" :> part.Fields.kv ELSE EmptyKV)
        @@ (IF o.WithTrace /\ Len(part.Stack) > 0 THEN "stack" :> stack ELSE EmptyKV))

\* Formatter.formatChainJSON
formatChainJSON(h, o, err) ==
    LET unpacked == Unpack(h, err)
        chain == [i \in 1..Len(unpacked.ErrChain) |-> formatPartJSON(o, unpacked.ErrChain[i])]
    IN MakeMap((IF unpacked.ErrExternal # NIL /\ (o.WithExternal \/ isOnlyExternal(unpacked))
                THEN "external" :> [message |-> ErrorText(h, unpacked.ErrExternal),
                                    go_type |-> h[unpacked.ErrExternal].kind]
                ELSE EmptyKV)
        @@ (IF hasRootContent(unpacked.ErrRoot)
            THEN "root" :> formatPartJSON(o, unpacked.ErrRoot) ELSE EmptyKV)
        @@ (IF Len(unpacked.ErrChain) > 0
            THEN "chain" :> (IF o.IsInnerFirst THEN Reverse(chain) ELSE chain)
            ELSE EmptyKV))

\* Formatter.formatJoinedJSON and Formatter.JSON, which call each other.
RECURSIVE JSON(_, _, _)
RECURSIVE JoinedJSONItems(_, _, _, _)
JoinedJSONItems(h, o, errs, i) ==
    IF i > Len(errs) THEN <<>>
    ELSE IF errs[i] = NIL THEN JoinedJSONItems(h, o, errs, i + 1)
    ELSE <<JSON(h, o, errs[i])>> \o JoinedJSONItems(h, o, errs, i + 1)

formatJoinedJSON(h, o, e) ==
    LET frames == resolveToStackFrames(h[e].trace)
    IN MakeMap(("type" :> "joined") @@ ("count" :> Len(h[e].errors))
        @@ (IF o.WithTrace /\ Len(frames) > 0
            THEN "join_stack" :> [i \in 1..Len(frames) |-> FrameMap(frames[i])]
            ELSE EmptyKV)
        @@ ("errors" :> JoinedJSONItems(h, o, h[e].errors, 1)))

JSON(h, o, err) ==
    IF err = NIL THEN NilMap
    ELSE IF h[err].kind = "joined" THEN formatJoinedJSON(h, o, err)
    ELSE formatChainJSON(h, o, err)

\* A FormatterOptionFunc sets one field of the options.
FormatterOptionFunc(field, value) == [field |-> field, value |-> value]

FormatWithTrace == FormatterOptionFunc("WithTrace", TRUE)

\* NewFormatter(ofs...): the defaults, then every option function in order.
RECURSIVE NewFormatter(_)
NewFormatter(ofs) ==
    IF ofs = <<>> THEN DefaultOptions
    ELSE LET f == ofs[Len(ofs)]
         IN [NewFormatter(SubSeq(ofs, 1, Len(ofs) - 1)) EXCEPT ![f.field] = f.value]

\* ToString(err, ofs...); the name ToString is taken by the TLC module.
ErrToString_Placeholder(h, err, ofs) ==
    IF err = NIL THEN Str(<<"<nil>">>) ELSE String(h, NewFormatter(ofs), err)

ErrToString(h, err, ofs) == String(h, NewFormatter(ofs), err)

\* ToJSON(err, ofs...)
ToJSON(h, err, ofs) == JSON(h, NewFormatter(ofs), err)

\* json.MarshalIndent of a non-nil map
MarshalIndent(data) == Str(<<"{", data.m, "}">>)

\* ToJSONString(err, ofs...)
ToJSONString(h, err, ofs) ==
    LET data == ToJSON(h, err, ofs)
    IN IF data.isNil THEN EmptyString ELSE MarshalIndent(data)

\* The argument lists of Join: up to MaxArgs errors, nil among them, no error
\* given twice.
ArgLists(h) ==
    {errs \in UNION {[1..n -> Refs(h)] : n \in 0..MaxArgs} :
        \A i, k \in 1..Len(errs) : (i # k /\ errs[i] # NIL) => errs[i] # errs[k]}

NoCall == Call("none", <<>>, "", <<>>, <<>>, NIL, FALSE, 0)

\* The goroutines that share the error values, and a goroutine outside any call.
Goroutines == {1, 2}

Idle == [pc |-> "idle", op |-> "", e |-> NIL, got |-> <<>>]

Init ==
    /\ heap = <<>>
    /\ last = NoCall
    /\ made = <<>>
    /\ mu = {}
    /\ goroutine = [g \in Goroutines |-> Idle]

\* The model stops allocating at MaxNodes error values.
Bounded == Len(heap') <= MaxNodes

\* A call that built a value.
(***************************************************************************)
(* Spec: New, Wrap, joins of two errors and errors of other packages.      *)
(***************************************************************************)
DoNew == \E msg \in Msgs : New(msg, <<>>, MainStack(2)) /\ Bounded

DoWrap ==
    \E c \in Refs(heap), msg \in Msgs, ofs \in OptLists :
        Wrap(c, msg, ofs, MainStack(2)) /\ Bounded

DoExternal == \E c \in Refs(heap) : External(TRUE, c) /\ Bounded

DoPair == \E a, b \in 1..Len(heap) : a < b /\ Join(<<a, b>>, MainStack(2)) /\ Bounded

Next == DoNew \/ DoWrap \/ DoExternal \/ DoPair

Spec == Init /\ [][Next]_vars

(***************************************************************************)
(* SpecJoin: Join over every argument list.                                *)
(***************************************************************************)
\* The last call allocated its result (or nothing was called yet).  A call
\* that allocated nothing left the heap as it was: the calls that can follow it
\* are those of the state before it, and are explored from there.
Allocated ==
    \/ last.op # "Join"
    \/ last.ret # NIL /\ \A i \in 1..Len(last.args) : last.args[i] # last.ret

NewLeaf == New("a", <<>>, MainStack(2)) /\ Bounded

ExternalLeaf == External(TRUE, NIL) /\ Bounded

DoJoin == Allocated /\ \E errs \in ArgLists(heap) : Join(errs, MainStack(2)) /\ Bounded

NewForJoin == Allocated /\ NewLeaf

ExternalForJoin == Allocated /\ ExternalLeaf

NextJoin == NewForJoin \/ ExternalForJoin \/ DoJoin

SpecJoin == Init /\ [][NextJoin]_vars

(***************************************************************************)
(* SpecTrace: New and Wrap from every call stack.                          *)
(***************************************************************************)
NewAt == \E stk \in Stacks : New("a", <<>>, stk) /\ Bounded

WrapAt == \E c \in 1..Len(heap), stk \in Stacks : Wrap(c, "a", <<>>, stk) /\ Bounded

NextTrace == NewAt \/ WrapAt \/ ExternalLeaf

SpecTrace == Init /\ [][NextTrace]_vars

(***************************************************************************)
(* SpecIs: the values Is is asked about: roots of two messages, typed or   *)
(* not, wraps, foreign errors and joins of two errors.                     *)
(***************************************************************************)
BuildNew ==
    \E msg \in Msgs, ofs \in {<<>>, <<WithType("T")>>} :
        New(msg, ofs, MainStack(2)) /\ Bounded

BuildWrap == \E c \in 1..Len(heap) : Wrap(c, "a", <<>>, MainStack(2)) /\ Bounded

BuildExternal ==
    \/ \E c \in Refs(heap) : External(TRUE, c) /\ Bounded
    \/ External(FALSE, NIL) /\ Bounded

BuildJoin == \E a, b \in 1..Len(heap) : Join(<<a, b>>, MainStack(2)) /\ Bounded

NextIs == BuildNew \/ BuildWrap \/ BuildExternal \/ BuildJoin

SpecIs == Init /\ [][NextIs]_vars

(***************************************************************************)
(* SpecNil: the methods of Root and Wrapped called through a nil pointer,  *)
(* Is with every value in hand as its target.                              *)
(***************************************************************************)
Variants == {"root", "wrapped"}

NilMethods == {"Error", "Type", "Fields", "StackFrames", "Unwrap", "SetType", "SetField", "Is"}

\* What method of variant v does on the receiver e == nil: the value returned,
\* or the fault of reading a field through the nil pointer.  Every method but
\* Is returns at `if e == nil`; Is tests e only when target is nil, and reads
\* e.message or e.errType when target is of the receiver's own type.
NilReceiver(h, v, method, target) ==
    CASE method = "Error" -> [ret |-> Str(<<"<nil>">>), fault |-> FALSE]
      [] method = "Type" -> [ret |-> "", fault |-> FALSE]
      [] method = "Fields" -> [ret |-> NilFields, fault |-> FALSE]
      [] method = "StackFrames" -> [ret |-> <<>>, fault |-> FALSE]
      [] method \in {"Unwrap", "SetType", "SetField"} -> [ret |-> NIL, fault |-> FALSE]
      [] method = "Is" ->
            IF target = NIL THEN [ret |-> TRUE, fault |-> FALSE]
            ELSE IF h[target].kind = v THEN [ret |-> NIL, fault |-> TRUE]
            ELSE [ret |-> FALSE, fault |-> FALSE]

\* (*root)(nil).method(...) or (*wrapped)(nil).method(...); the call record
\* holds the receiver's type in msg.
NilMethodCall ==
    \E v \in Variants, method \in NilMethods, target \in Refs(heap) :
        /\ last.op \notin NilMethods
        /\ method # "Is" => target = NIL
        /\ LET r == NilReceiver(heap, v, method, target)
           IN last' = Call(method, <<target>>, v, <<>>, <<>>, r.ret, r.fault, Len(heap))
        /\ UNCHANGED <<heap, made, mu, goroutine>>

\* A method call leaves the values as they were; the constructors are explored
\* from the state before it.
Constructed == last.op \notin NilMethods

NilNew == Constructed /\ BuildNew

NilWrap == Constructed /\ BuildWrap

NilExternal == Constructed /\ BuildExternal

NilJoin == Constructed /\ BuildJoin

NextNil == NilNew \/ NilWrap \/ NilExternal \/ NilJoin \/ NilMethodCall

SpecNil == Init /\ [][NextNil]_vars

(***************************************************************************)
(* SpecAs: the values As is asked about, up to MaxAsNodes of them.         *)
(***************************************************************************)
BoundedAs == Len(heap') <= MaxAsNodes

AsNew == New("a", <<>>, MainStack(2)) /\ BoundedAs

AsWrap == \E c \in 1..Len(heap) : Wrap(c, "a", <<>>, MainStack(2)) /\ BoundedAs

AsExternal == External(TRUE, NIL) /\ BoundedAs

AsJoin == \E a, b \in 1..Len(heap) : Join(<<a, b>>, MainStack(2)) /\ BoundedAs

NextAs == AsNew \/ AsWrap \/ AsExternal \/ AsJoin

SpecAs == Init /\ [][NextAs]_vars

(***************************************************************************)
(* SpecFormat: errors are built and then formatted.  Roots are made two    *)
(* calls deep, so that a trace holds two frames.                           *)
(***************************************************************************)
\* The option lists the formatting calls are given.
FormatOptLists ==
    {<<>>,
     <<FormatterOptionFunc("IsInnerFirst", TRUE)>>,
     <<FormatWithTrace>>,
     <<FormatWithTrace, FormatterOptionFunc("InvertTrace", TRUE)>>}

FmtNew == New("a", <<WithType("T"), WithField("k", "v")>>, MainStack(3)) /\ Bounded

FmtWrap == \E c \in 1..Len(heap), msg \in Msgs : Wrap(c, msg, <<>>, MainStack(2)) /\ Bounded

FmtExternal == External(TRUE, NIL) /\ Bounded

FmtJoin ==
    \E a, b \in 1..Len(heap) : a < b /\ Join(<<a, b>>, MainStack(2)) /\ Bounded

\* The last call was a constructor's (or nothing was called yet).  A formatting
\* call leaves the errors as they were: the formatting calls that can follow it
\* are those of the state before it, and are explored from there.
Built == last.op \notin {"ToString", "ToJSON", "ToJSONString"}

\* ToString(err, ofs...) on an error in hand, or on nil.
DoToString ==
    Built /\ \E e \in Refs(heap), ofs \in FormatOptLists :
        /\ last' = Call("ToString", <<e>>, "", ofs, <<>>, ErrToString(heap, e, ofs), FALSE, 0)
        /\ UNCHANGED <<heap, made, mu, goroutine>>

\* ToJSON(err, ofs...)
DoToJSON ==
    Built /\ \E e \in Refs(heap), ofs \in FormatOptLists :
        /\ last' = Call("ToJSON", <<e>>, "", ofs, <<>>, ToJSON(heap, e, ofs), FALSE, 0)
        /\ UNCHANGED <<heap, made, mu, goroutine>>

\* ToJSONString(err, ofs...)
DoToJSONString ==
    Built /\ \E e \in Refs(heap) :
        /\ last' = Call("ToJSONString", <<e>>, "", <<>>, <<>>,
                        ToJSONString(heap, e, <<>>), FALSE, 0)
        /\ UNCHANGED <<heap, made, mu, goroutine>>

NextFormat ==
    FmtNew \/ FmtWrap \/ FmtExternal \/ FmtJoin \/ DoToString \/ DoToJSON \/ DoToJSONString

SpecFormat == Init /\ [][NextFormat]_vars

(***************************************************************************)
(* SpecExternal: chains over foreign errors, formatted by a formatter      *)
(* whose option function clears WithExternal.                              *)
(***************************************************************************)
\* func(options *FormatterOptions) { options.WithExternal = false }
WithoutExternal == FormatterOptionFunc("WithExternal", FALSE)

ExternalOptLists ==
    {<<WithoutExternal>>,
     <<WithoutExternal, FormatterOptionFunc("IsInnerFirst", TRUE)>>,
     <<WithoutExternal, FormatWithTrace>>,
     <<>>}

ExtNew == New("a", <<>>, MainStack(2)) /\ Bounded

ExtForeign == External(TRUE, NIL) /\ Bounded

ExtWrap ==
    \E c \in 1..Len(heap), msg \in {"", "b"}, d \in 1..MaxDepth :
        Wrap(c, msg, <<>>, MainStack(d)) /\ Bounded

ExtToString ==
    Built /\ \E e \in 1..Len(heap), ofs \in ExternalOptLists :
        /\ last' = Call("ToString", <<e>>, "", ofs, <<>>, ErrToString(heap, e, ofs), FALSE, 0)
        /\ UNCHANGED <<heap, made, mu, goroutine>>

ExtToJSON ==
    Built /\ \E e \in 1..Len(heap), ofs \in ExternalOptLists :
        /\ last' = Call("ToJSON", <<e>>, "", ofs, <<>>, ToJSON(heap, e, ofs), FALSE, 0)
        /\ UNCHANGED <<heap, made, mu, goroutine>>

NextExternal == ExtNew \/ ExtForeign \/ ExtWrap \/ ExtToString \/ ExtToJSON

SpecExternal == Init /\ [][NextExternal]_vars

(***************************************************************************)
(* SpecLock: two goroutines share a root and a wrapper of it; each calls   *)
(* SetType, SetField, Type and Fields on them, one statement at a time.    *)
(***************************************************************************)
LockNew == heap = <<>> /\ New("a", <<>>, MainStack(2))

LockWrap == Len(heap) = 1 /\ Wrap(1, "b", <<>>, MainStack(2))

\* e.mu is held.
Locked(e) == \E l \in mu : l.e = e

\* goroutine g enters op on the non-nil receiver e.
Enter(g, op, at) ==
    \E e \in 1..Len(heap) :
        /\ goroutine[g].pc = "idle"
        /\ goroutine' = [goroutine EXCEPT ![g] = [pc |-> at, op |-> op, e |-> e, got |-> <<>>]]
        /\ UNCHANGED <<heap, last, made, mu>>

SetTypeCall == \E g \in Goroutines : Enter(g, "SetType", "lock")

SetFieldCall == \E g \in Goroutines : Enter(g, "SetField", "lock")

TypeCall == \E g \in Goroutines : Enter(g, "Type", "read")

FieldsCall == \E g \in Goroutines : Enter(g, "Fields", "read")

\* e.mu.Lock()
Lock ==
    \E g \in Goroutines :
        /\ goroutine[g].pc = "lock"
        /\ ~Locked(goroutine[g].e)
        /\ mu' = mu \cup {[e |-> goroutine[g].e, by |-> g]}
        /\ goroutine' = [goroutine EXCEPT ![g].pc = "write"]
        /\ UNCHANGED <<heap, last, made>>

\* What the setter in progress stores into its receiver.
Stored(n, op) == IF op = "SetType" THEN SetType(n, "T") ELSE SetField(n, "k", "v")

\* e.errType = errType, or the allocation of and the store into e.fields
Write ==
    \E g \in Goroutines :
        /\ goroutine[g].pc = "write"
        /\ heap' = [heap EXCEPT ![goroutine[g].e] = Stored(@, goroutine[g].op)]
        /\ goroutine' = [goroutine EXCEPT ![g].pc = "unlock"]
        /\ UNCHANGED <<last, made, mu>>

\* the deferred e.mu.Unlock(), and the return
Unlock ==
    \E g \in Goroutines :
        /\ goroutine[g].pc = "unlock"
        /\ mu' = mu \ {[e |-> goroutine[g].e, by |-> g]}
        /\ goroutine' = [goroutine EXCEPT ![g] = Idle]
        /\ UNCHANGED <<heap, last, made>>

\* What a getter returns from node n.
Got(n, op) == IF op = "Type" THEN <<n.errType>> ELSE <<n.fields>>

\* Another goroutine is about to store into the memory g is about to load.
Racing(g) ==
    \E w \in Goroutines \ {g} :
        /\ goroutine[w].pc = "write"
        /\ goroutine[w].e = goroutine[g].e
        /\ goroutine[w].op = (IF goroutine[g].op = "Type" THEN "SetType" ELSE "SetField")

\* What a load that races with the store can also yield: a string that is
\* neither the old tag nor the new one, or the map allocated and still empty.
Torn(op) == IF op = "Type" THEN <<"?">> ELSE <<[isNil |-> FALSE, kv |-> EmptyKV]>>

\* errType = e.errType or fields = e.fields, and the return: the getters take
\* no lock.  A load that races with a store yields the old value, the new one
\* or a torn one.
Read ==
    \E g \in Goroutines :
        /\ goroutine[g].pc = "read"
        /\ LET n == heap[goroutine[g].e]
               op == goroutine[g].op
           IN \E v \in IF Racing(g)
                       THEN {Got(n, op),
                             Got(Stored(n, IF op = "Type" THEN "SetType" ELSE "SetField"), op),
                             Torn(op)}
                       ELSE {Got(n, op)} :
                 goroutine' = [goroutine EXCEPT ![g] = [Idle EXCEPT !.op = op, !.got = v]]
        /\ UNCHANGED <<heap, last, made, mu>>

NextLock ==
    \/ LockNew \/ LockWrap
    \/ SetTypeCall \/ SetFieldCall \/ TypeCall \/ FieldsCall
    \/ Lock \/ Write \/ Unlock \/ Read

SpecLock == Init /\ [][NextLock]_vars

(***************************************************************************)
(* SpecGlobal: roots made below a function named like the runtime's        *)
(* initialiser, which New flags as global, and roots made below main.      *)
(***************************************************************************)
GlobalNew ==
    \E ofs \in OptLists, stk \in {AppInitStack, MainStack(2)} : New("a", ofs, stk) /\ Bounded

GlobalWrap ==
    \E c \in 1..Len(heap), msg \in Msgs, d \in 1..MaxDepth :
        Wrap(c, msg, <<>>, MainStack(d)) /\ Bounded

NextGlobal == GlobalNew \/ GlobalWrap

SpecGlobal == Init /\ [][NextGlobal]_vars

(***************************************************************************)
(* SpecInsert: insertPC on every trace of up to MaxTraceLen addresses and  *)
(* every capture of up to three, over three addresses.                     *)
(***************************************************************************)
Addresses == {1, 2, 3}

SeqsUpTo(n) == UNION {[1..k -> Addresses] : k \in 0..n}

\* A trace s and a capture wrapPCs, before insertPC is applied to them.
InitInsert ==
    /\ heap = <<>>
    /\ made = <<>>
    /\ mu = {}
    /\ goroutine = [g \in Goroutines |-> Idle]
    /\ last \in {Call("input", wrapPCs, "", <<>>, s, <<>>, FALSE, 0) :
                    s \in SeqsUpTo(MaxTraceLen), wrapPCs \in SeqsUpTo(3)}

\* s.insertPC(wrapPCs)
DoInsertPC ==
    /\ last.op = "input"
    /\ last' = [last EXCEPT !.op = "insertPC", !.ret = insertPC(last.stk, last.args)]
    /\ UNCHANGED <<heap, made, mu, goroutine>>

SpecInsert == InitInsert /\ [][DoInsertPC]_vars

(***************************************************************************)
(* SpecFrames: resolveToStackFrames on every stack of up to MaxTraceLen    *)
(* addresses of application, initialisation and runtime functions.         *)
(***************************************************************************)
FrameAddresses == {CallSite(1), LibSite(1), CallSite(2), PcPkgInit, PcRuntimeMain}

\* A stack s, before resolveToStackFrames is applied to it.
InitFrames ==
    /\ heap = <<>>
    /\ made = <<>>
    /\ mu = {}
    /\ goroutine = [g \in Goroutines |-> Idle]
    /\ last \in {Call("input", <<>>, "", <<>>, s, <<>>, FALSE, 0) :
                    s \in UNION {[1..k -> FrameAddresses] : k \in 0..MaxTraceLen}}

\* s.resolveToStackFrames()
DoResolveToStackFrames ==
    /\ last.op = "input"
    /\ last' = [last EXCEPT !.op = "resolveToStackFrames",
                            !.ret = resolveToStackFrames(last.stk)]
    /\ UNCHANGED <<heap, made, mu, goroutine>>

SpecFrames == InitFrames /\ [][DoResolveToStackFrames]_vars

(***************************************************************************)
(* SpecRace: a root made by the main goroutine is wrapped by two worker    *)
(* goroutines; wrap takes no lock, so the load and the store of the root's *)
(* trace in insertPC are separate steps of each goroutine.                 *)
(***************************************************************************)
\* Wrap called from a helper that worker function w calls, w started by a go
\* statement.
WorkerStack(w) == <<LibSite(3), CallSite(w), PcGoexit>>

\* The root whose trace wrap(cause) merges into, NIL when it merges into none.
MergeTarget(h, c) ==
    IF h[c].kind = "root" THEN (IF h[c].isGlobal THEN NIL ELSE c)
    ELSE IF h[c].kind = "wrapped" /\ h[Cause(h, c)].kind = "root" THEN Cause(h, c)
    ELSE NIL

\* callers(4) of the wrap call goroutine g is in.
WrapTrace(g) == callers(4, WrapStack(goroutine[g].stk))

\* The goroutines inside wrap.
InWrap == {g \in Goroutines : goroutine[g].pc \in {"load", "store", "return"}}

RaceNew ==
    /\ Len(heap) + Cardinality(InWrap) < MaxNodes
    /\ \E d \in 1..MaxDepth : New("a", <<>>, MainStack(d))

\* Wrap(cause, "b") entered by a goroutine; trace := callers(4), frame := caller(3)
WrapCall ==
    \E g \in Goroutines, c \in 1..Len(heap), w \in Goroutines :
        /\ goroutine[g].pc = "idle"
        /\ Len(heap) + Cardinality(InWrap) < MaxNodes
        /\ goroutine' = [goroutine EXCEPT ![g] =
               [pc |-> IF MergeTarget(heap, c) = NIL THEN "return" ELSE "load",
                op |-> "Wrap", e |-> c, got |-> <<>>, stk |-> WorkerStack(w)]]
        /\ UNCHANGED <<heap, last, made, mu>>

\* insertPC reads *s
TraceLoad ==
    \E g \in Goroutines :
        /\ goroutine[g].pc = "load"
        /\ goroutine' = [goroutine EXCEPT ![g].pc = "store",
                                          ![g].got = heap[MergeTarget(heap, goroutine[g].e)].trace]
        /\ UNCHANGED <<heap, last, made, mu>>

StoreInto_Fresh(h, r, s, wrapPCs) == [h EXCEPT ![r].trace = wrapPCs]

\* *s = append(*s, wrapPCs[0]), or the insertion, computed from the slice read
StoreInto(h, r, s, wrapPCs) == [h EXCEPT ![r].trace = insertPC(s, wrapPCs)]

TraceStore ==
    \E g \in Goroutines :
        /\ goroutine[g].pc = "store"
        /\ heap' = StoreInto(heap, MergeTarget(heap, goroutine[g].e), goroutine[g].got, WrapTrace(g))
        /\ goroutine' = [goroutine EXCEPT ![g].pc = "return"]
        /\ UNCHANGED <<last, made, mu>>

\* err = &wrapped{...}, or the case that merges into no root, and the return
WrapReturn ==
    \E g \in Goroutines :
        /\ goroutine[g].pc = "return"
        /\ LET c == goroutine[g].e
               stk == goroutine[g].stk
               w == IF MergeTarget(heap, c) = NIL
                    THEN wrap(heap, c, "b", stk)
                    ELSE wrapNode(heap, c, "b", caller(3, WrapStack(stk)))
           IN /\ heap' = w.heap
              /\ last' = Call("Wrap", <<c>>, "b", <<>>, stk, w.ret, FALSE, Len(heap))
        /\ made' = Record(heap', "Wrap", goroutine[g].e)
        /\ goroutine' = [goroutine EXCEPT ![g].pc = "done"]
        /\ UNCHANGED mu

NextRace == RaceNew \/ WrapCall \/ TraceLoad \/ TraceStore \/ WrapReturn

SpecRace == Init /\ [][NextRace]_vars

(***************************************************************************)
(* Properties of New and Wrap.                                             *)
(***************************************************************************)
\* e is a root made by New or a wrapper of such a chain.
RECURSIVE OnCreateChain(_)
OnCreateChain(e) ==
    \/ made[e].op = "New"
    \/ /\ made[e].op = "Wrap"
       /\ heap[e].kind = "wrapped"
       /\ OnCreateChain(made[e].arg)

\* The root made by New at the base of e's chain.
RECURSIVE Origin(_)
Origin(e) == IF made[e].op = "New" THEN e ELSE Origin(made[e].arg)

C5_WrapNilReturnsNil ==
    (last.op = "Wrap" /\ last.args = <<NIL>>) => (last.ret = NIL /\ ~last.fault)

\* C6: Wrap of a non-nil cause that is neither a root nor a wrapped error returns
\* a root whose message is the wrap message and whose cause is the given error,
\* so one Unwrap reaches it.
C6_ForeignWrap ==
    (/\ last.op = "Wrap"
     /\ last.args[1] # NIL
     /\ heap[last.args[1]].kind \notin {"root", "wrapped"}) =>
        /\ last.ret # NIL
        /\ heap[last.ret].kind = "root"
        /\ heap[last.ret].message = last.msg
        /\ heap[last.ret].cause = last.args[1]
        /\ Unwrap(heap, last.ret) = last.args[1]

\* A foreign error has been wrapped.
C6_Witness ==
    /\ last.op = "Wrap"
    /\ last.args[1] # NIL
    /\ heap[last.args[1]].kind = "foreign"
    /\ last.ret > last.pre
    /\ last.msg = "b"

(***************************************************************************)
(* Properties of Join.                                                     *)
(***************************************************************************)
\* C3: Join drops its nil arguments; with none left it returns nil, with one
\* left it returns that very error and allocates nothing, with two or more it
\* returns a new joined node whose children are the non-nil arguments in
\* argument order.  Every joined node has at least two children, none nil.
C3_Join ==
    /\ last.op = "Join" =>
        LET kept == SelectSeq(last.args, LAMBDA x : x # NIL)
        IN IF Len(kept) = 0 THEN last.ret = NIL /\ Len(heap) = last.pre
           ELSE IF Len(kept) = 1 THEN last.ret = kept[1] /\ Len(heap) = last.pre
           ELSE /\ Len(heap) = last.pre + 1
                /\ last.ret = Len(heap)
                /\ heap[last.ret].kind = "joined"
                /\ heap[last.ret].errors = kept
    /\ \A j \in 1..Len(heap) :
        heap[j].kind = "joined" =>
            /\ Len(heap[j].errors) >= 2
            /\ \A i \in 1..Len(heap[j].errors) : heap[j].errors[i] # NIL

\* Join has been given a nil between two errors and has returned a joined node
\* of the two, the later-made one first.
C3_Witness ==
    /\ last.op = "Join"
    /\ Len(last.args) = 3
    /\ last.args[2] = NIL
    /\ last.ret > last.pre
    /\ heap[last.ret].errors = <<2, 1>>

\* C4: for every joined node j, Unwrap(j) is nil and Cause(j) is j itself.
C4_JoinedTerminal ==
    \A j \in 1..Len(heap) :
        heap[j].kind = "joined" => Unwrap(heap, j) = NIL /\ Cause(heap, j) = j

\* A joined node over a wrapped error exists.
C4_Witness ==
    \E j \in 1..Len(heap) :
        /\ heap[j].kind = "joined"
        /\ heap[heap[j].errors[1]].kind = "wrapped"
        /\ Cause(heap, j) = j


(***************************************************************************)
(* Properties of the trace merge.                                          *)
(***************************************************************************)
\* C7: wrapping the same root-derived error twice from the same call site
\* leaves the root's trace equal to the trace after the first wrap.
C7_SameSiteIdempotent ==
    [][(/\ last.op = "Wrap"
        /\ last.ret # NIL
        /\ last'.op = "Wrap"
        /\ last'.args = last.args
        /\ last'.stk = last.stk
        /\ heap[Cause(heap, last.args[1])].kind = "root")
       => heap'[Cause(heap, last.args[1])].trace = heap[Cause(heap, last.args[1])].trace]_vars

\* The heap is r = New(A), w1 = Wrap(r, B), w2 = Wrap(w1, C), both wraps made
\* from application code.
Chain3 ==
    /\ Len(heap) = 3
    /\ made[1].op = "New"
    /\ made[2].op = "Wrap" /\ made[2].arg = 1
    /\ made[3].op = "Wrap" /\ made[3].arg = 2
    /\ \A w \in {2, 3} : heap[w].frame # NIL /\ ~HasRuntimePrefix(heap[w].frame)

OneInserted(old, new) ==
    \E k \in 1..Len(new) : old = SubSeq(new, 1, k - 1) \o SubSeq(new, k + 1, Len(new))

RECURSIVE Reach(_, _)
Reach(h, e) ==
    {e} \cup
    (IF h[e].kind = "joined"
     THEN UNION {Reach(h, h[e].errors[i]) : i \in 1..Len(h[e].errors)}
     ELSE IF h[e].cause # NIL THEN Reach(h, h[e].cause) ELSE {})

\* Node n reports equality with t through its own Is method.
CustomEq(h, n, t) ==
    \/ h[n].kind = "root" /\ rootIs(h, n, t)
    \/ h[n].kind = "wrapped" /\ wrappedIs(h, n, t)

\* Is(err, t) holds exactly when a node reachable from err is t itself, t being
\* comparable, or reports equality with t.
IsByReach ==
    \A e, t \in 1..Len(heap) :
        Is(heap, e, t) <=>
            \E n \in Reach(heap, e) : (heap[t].cmp /\ n = t) \/ CustomEq(heap, n, t)

\* C2 as stated: Is(err, t) holds exactly when a reachable node is t or reports
\* equality with it; in particular Is(Join(e1, ..., en), t) holds exactly when
\* some Is(ei, t) holds.
C2_Original ==
    /\ IsByReach
    /\ \A j, t \in 1..Len(heap) :
        heap[j].kind = "joined" =>
            (Is(heap, j, t) <=>
                \E i \in 1..Len(heap[j].errors) : Is(heap, heap[j].errors[i], t))

\* C2, amended: Is(err, t) holds exactly when a reachable node is t or reports
\* equality with it; Is(Join(e1, ..., en), t) holds exactly when t is the
\* joined node itself or some Is(ei, t) holds.
C2_Is ==
    /\ IsByReach
    /\ \A j, t \in 1..Len(heap) :
        heap[j].kind = "joined" =>
            (Is(heap, j, t) <=>
                \/ t = j
                \/ \E i \in 1..Len(heap[j].errors) : Is(heap, heap[j].errors[i], t))

\* A joined error has a child that wraps a root: Is finds the root below the
\* joined node, and the joined node itself, which none of its children is.
C2_Witness ==
    \E j, w, r \in 1..Len(heap) :
        /\ heap[j].kind = "joined" /\ heap[j].errors[1] = w
        /\ heap[w].kind = "wrapped" /\ heap[w].cause = r
        /\ heap[r].kind = "root"
        /\ Is(heap, j, r)
        /\ Is(heap, j, j)
        /\ \A i \in 1..Len(heap[j].errors) : ~Is(heap, heap[j].errors[i], j)

(***************************************************************************)
(* Properties of As.                                                       *)
(***************************************************************************)
\* The nodes below e in depth-first order: e, then its single cause's, or its
\* children's from left to right, each explored in full before the next.
RECURSIVE Preorder(_, _)
RECURSIVE PreorderAll(_, _)
Preorder(h, e) ==
    <<e>> \o
    (IF h[e].kind = "joined" THEN PreorderAll(h, h[e].errors)
     ELSE IF h[e].cause # NIL THEN Preorder(h, h[e].cause) ELSE <<>>)

PreorderAll(h, errs) ==
    IF errs = <<>> THEN <<>> ELSE Preorder(h, Head(errs)) \o PreorderAll(h, Tail(errs))

\* q[i] is the first node of q whose type is assignable to T.
FirstAssignable(h, q, i, T) ==
    /\ AssignableTo(TypeOf(h, q[i]), T)
    /\ \A k \in 1..(i - 1) : ~AssignableTo(TypeOf(h, q[k]), T)

\* C9: when As returns true the target holds the first node, in depth-first
\* order from err, whose type is assignable to the target's pointee type.
C9_AsFirstMatch ==
    \A e \in 1..Len(heap), T \in InterfaceTypes \cup ErrorTypes :
        LET r == As(heap, e, Ptr(T, NIL), <<>>)
            q == Preorder(heap, e)
        IN r.ok => \E i \in 1..Len(q) : FirstAssignable(heap, q, i, T) /\ r.val = q[i]

\* As on Join(Wrap(r1), r2) with a *root target returns r1, found below the
\* first child, and not r2, the second child.
C9_Witness ==
    \E j, w, r1, r2 \in 1..Len(heap) :
        /\ heap[j].kind = "joined" /\ heap[j].errors = <<w, r2>>
        /\ heap[w].kind = "wrapped" /\ heap[w].cause = r1
        /\ heap[r1].kind = "root" /\ heap[r2].kind = "root" /\ r1 # r2
        /\ As(heap, j, Ptr("*root", NIL), <<>>).ok
        /\ As(heap, j, Ptr("*root", NIL), <<>>).val = r1

\* The targets a caller can pass: the pointee may already hold an error of its
\* type.
Targets(h) ==
    {NilTarget, ValueTarget} \cup {NilPtr(T) : T \in PointeeTypes} \cup
    UNION {{Ptr(T, v) : v \in {x \in Refs(h) :
                                  x = NIL \/ (x = 1 /\ AssignableTo(TypeOf(h, x), T))}} :
           T \in PointeeTypes}

\* The inputs As rejects: nil err, nil target, a target that is not a non-nil
\* pointer, a pointee type that is neither an interface nor an error type.
Rejected(e, t) ==
    \/ e = NIL
    \/ t.kind # "ptr"
    \/ t.elem \notin InterfaceTypes /\ t.elem \notin ErrorTypes

\* C10: As returns false without examining any node on a rejected input, and
\* whenever it returns false the target holds what it held.
C10_AsRejects ==
    \A e \in Refs(heap), t \in Targets(heap) :
        LET r == As(heap, e, t, <<>>)
        IN /\ Rejected(e, t) => ~r.ok /\ r.visited = <<>>
           /\ ~r.ok => r.val = t.val

\* As has rejected a *int target without a visit, and has searched a joined
\* error for a Stringer in vain, leaving the target's error in place.
C10_Witness ==
    \E j \in 1..Len(heap) :
        /\ heap[j].kind = "joined"
        /\ heap[1].kind = "root"
        /\ As(heap, j, Ptr("int", NIL), <<>>) = AsResult(FALSE, NIL, <<>>)
        /\ ~As(heap, j, Ptr("Stringer", NIL), <<>>).ok
        /\ Len(As(heap, j, Ptr("Stringer", NIL), <<>>).visited) >= 3
        /\ As(heap, j, Ptr("*foreign", NIL), <<>>).val = NIL
        /\ ~As(heap, j, Ptr("*foreign", NIL), <<>>).ok


(***************************************************************************)
(* Nil inputs.                                                             *)
(***************************************************************************)
\* C11: nil inputs yield the defaults.  Is(nil, nil) is true; Is with exactly
\* one nil argument is false; As of a nil error is false for every target;
\* Unwrap(nil) and Cause(nil) are nil; Join(nil, nil) is nil; ToString(nil) is
\* the empty string, ToJSON(nil) the nil map and ToJSONString(nil) the empty
\* string, under every option list.
C11_NilInputs ==
    /\ Is(heap, NIL, NIL)
    /\ \A x \in 1..Len(heap) : ~Is(heap, x, NIL) /\ ~Is(heap, NIL, x)
    /\ \A t \in Targets(heap) : ~As(heap, NIL, t, <<>>).ok
    /\ Unwrap(heap, NIL) = NIL
    /\ Cause(heap, NIL) = NIL
    /\ JoinResult(heap, <<NIL, NIL>>, MainStack(2)) = [heap |-> heap, ret |-> NIL]
    /\ \A ofs \in FormatOptLists :
          /\ ErrToString(heap, NIL, ofs) = EmptyString
          /\ ToJSON(heap, NIL, ofs) = NilMap
          /\ ToJSONString(heap, NIL, ofs) = EmptyString
    /\ (last.op = "ToString" /\ last.args = <<NIL>>) => last.ret = EmptyString
    /\ (last.op = "ToJSON" /\ last.args = <<NIL>>) => last.ret.isNil

\* ToString(nil) has returned the empty string while a root and a joined error
\* exist, and the same call on the root returns a text that is not empty.
C11_Witness ==
    /\ last.op = "ToString" /\ last.args = <<NIL>> /\ last.ret = EmptyString
    /\ \E r, j \in 1..Len(heap) :
          /\ heap[r].kind = "root" /\ heap[j].kind = "joined"
          /\ ErrToString(heap, r, last.ofs) # EmptyString
          /\ ~ToJSON(heap, j, last.ofs).isNil


(***************************************************************************)
(* Options of Wrap.                                                        *)
(***************************************************************************)
\* C12: a Wrap of a Root or Wrapped cause applies its options to the node it
\* returns and to no other: the tag and the fields of the cause and of every
\* node that existed before the call are what they were, and the returned node
\* carries exactly the options given.
C12_OptionsOnNewNode ==
    [][(last'.op = "Wrap" /\ last'.ret # NIL /\
        heap[last'.args[1]].kind \in {"root", "wrapped"})
       => /\ \A n \in 1..Len(heap) :
                /\ heap'[n].errType = heap[n].errType
                /\ heap'[n].fields = heap[n].fields
          /\ last'.ret > Len(heap)
          /\ heap'[last'.ret] =
                ApplyOptions(wrapped(last'.msg, heap'[last'.ret].cause,
                                     heap'[last'.ret].frame), last'.ofs)]_vars

\* Wrap with a tag and a field has returned a node that carries them, over a
\* Wrapped cause that has neither and whose Root has neither.
C12_Witness ==
    /\ last.op = "Wrap" /\ last.ret # NIL /\ last.ofs # <<>>
    /\ heap[last.ret].errType = "T" /\ ~heap[last.ret].fields.isNil
    /\ LET c == last.args[1]
       IN /\ heap[c].kind = "wrapped" /\ heap[c].errType = "" /\ heap[c].fields.isNil
          /\ heap[heap[c].cause].kind = "root"
          /\ heap[heap[c].cause].errType = "" /\ heap[heap[c].cause].fields.isNil


(***************************************************************************)
(* Setters and getters under concurrency.                                  *)
(***************************************************************************)
\* C13: SetType and SetField are atomic with respect to concurrent readers: no
\* step lets a goroutine read the tag or the fields of a node while another
\* goroutine is inside the locked section of a setter of that node.
C13_ReadersExcluded ==
    [][\A g \in Goroutines :
          (goroutine[g].pc = "read" /\ goroutine'[g].pc = "idle")
          => ~Locked(goroutine[g].e)]_vars


(***************************************************************************)
(* Wrap of a global root.                                                  *)
(***************************************************************************)
\* C14: a Wrap of a Root flagged as global leaves that Root and every other
\* existing node as they were, allocates a Root that has the original's flag,
\* message, tag, fields and cause and the trace captured by this call, and
\* returns a Wrapped node whose cause is that new Root.
C14_GlobalRootCopied ==
    [][(last'.op = "Wrap" /\ last'.ret # NIL /\
        heap[last'.args[1]].kind = "root" /\ heap[last'.args[1]].isGlobal)
       => LET c == last'.args[1]
              copy == Len(heap) + 1
          IN /\ Len(heap') = Len(heap) + 2
             /\ SubSeq(heap', 1, Len(heap)) = heap
             /\ heap'[copy] = [heap[c] EXCEPT !.trace = callers(4, WrapStack(last'.stk))]
             /\ last'.ret = Len(heap) + 2
             /\ heap'[last'.ret].kind = "wrapped"
             /\ heap'[last'.ret].cause = copy]_vars

\* A global root with a tag and a field has been wrapped: it still has its own
\* trace, and the wrapper's cause is another root with the same message, tag
\* and fields and a different trace.
C14_Witness ==
    /\ last.op = "Wrap" /\ last.ret # NIL
    /\ LET c == last.args[1]
           copy == heap[last.ret].cause
       IN /\ heap[c].kind = "root" /\ heap[c].isGlobal
          /\ heap[c].errType = "T" /\ ~heap[c].fields.isNil
          /\ copy # c /\ heap[copy].kind = "root" /\ heap[copy].isGlobal
          /\ heap[copy].errType = "T" /\ heap[copy].fields = heap[c].fields
          /\ heap[copy].message = heap[c].message
          /\ heap[c].trace = made[c].trace0
          /\ heap[copy].trace # heap[c].trace


(***************************************************************************)
(* Unpack.                                                                 *)
(***************************************************************************)
\* The nodes from e along the cause links, ending with the first node that is
\* neither a Root nor a Wrapped node, if there is one.
RECURSIVE Walk(_, _)
Walk(h, e) ==
    IF e = NIL THEN <<>>
    ELSE IF h[e].kind \in {"root", "wrapped"} THEN <<e>> \o Walk(h, h[e].cause)
    ELSE <<e>>

\* The part that describes node n.
PartOf(h, n) ==
    ErrPart(h[n].message, h[n].errType, h[n].fields,
            IF h[n].kind = "root" THEN resolveToStackFrames(h[n].trace)
            ELSE IF h[n].frame # NIL THEN <<resolveToStackFrame(h[n].frame)>> ELSE <<>>)

\* The nodes of kind k among the nodes q, in the order of q.
OfKind(h, q, k) == SelectSeq(q, LAMBDA n : h[n].kind = k)

\* C15: Unpack of a Joined error holds exactly its children and no root part,
\* chain part or external error.  Unpack of any other error walks the causes:
\* the Root met fills the root part, every Wrapped node met contributes exactly
\* one chain part, the first node that is neither becomes the external error
\* and ends the walk, and there is no joined list.
C15_Unpack ==
    \A e \in 1..Len(heap) :
        LET u == Unpack(heap, e)
            walk == Walk(heap, e)
            roots == OfKind(heap, walk, "root")
            wraps == OfKind(heap, walk, "wrapped")
            tail == walk[Len(walk)]
        IN IF heap[e].kind = "joined"
           THEN u = UnpackedError(NIL, ZeroPart, <<>>, heap[e].errors)
           ELSE /\ u.ErrJoined = <<>>
                /\ u.ErrRoot = (IF roots = <<>> THEN ZeroPart ELSE PartOf(heap, roots[1]))
                /\ Len(roots) <= 1
                /\ Len(u.ErrChain) = Len(wraps)
                /\ \A k \in 1..Len(wraps) :
                      Cardinality({i \in 1..Len(u.ErrChain) :
                                      u.ErrChain[i] = PartOf(heap, wraps[k])}) =
                      Cardinality({i \in 1..Len(wraps) :
                                      PartOf(heap, wraps[i]) = PartOf(heap, wraps[k])})
                /\ u.ErrExternal =
                      (IF heap[tail].kind \in {"root", "wrapped"} THEN NIL ELSE tail)

\* ToString has formatted a Wrapped node over a Root whose cause is an error
\* of another package: Unpack yields one chain part, the root part and the
\* external error.
C15_Witness ==
    /\ last.op = "ToString"
    /\ \E w, r, x \in 1..Len(heap) :
          /\ last.args = <<w>>
          /\ heap[w].kind = "wrapped" /\ heap[w].cause = r
          /\ heap[r].kind = "root" /\ heap[r].cause = x
          /\ heap[x].kind = "foreign"
          /\ Unpack(heap, w) =
                UnpackedError(x, PartOf(heap, r), <<PartOf(heap, w)>>, <<>>)


\* The parts of the Wrapped nodes on the walk from e, outermost first.
WrapParts(h, e) ==
    LET wraps == OfKind(h, Walk(h, e), "wrapped")
    IN [i \in 1..Len(wraps) |-> PartOf(h, wraps[i])]

\* C16 as stated: the chain parts are stored innermost-first, the first being
\* the Wrapped node nearest the Root and the last the outermost one.
C16_Original ==
    \A e \in 1..Len(heap) :
        heap[e].kind # "joined" => Unpack(heap, e).ErrChain = Reverse(WrapParts(heap, e))

\* C16: the chain parts are stored outermost-first: the first part is that of
\* the outermost Wrapped node, where the walk starts, and the last is that of
\* the Wrapped node nearest the Root.
C16_ChainOutermostFirst ==
    \A e \in 1..Len(heap) :
        heap[e].kind # "joined" => Unpack(heap, e).ErrChain = WrapParts(heap, e)

\* ToString has formatted a Wrapped node "b" over a Wrapped node "a" over a
\* Root: the chain parts are those of "b", then "a".
C16_Witness ==
    /\ last.op = "ToString"
    /\ \E w2, w1, r \in 1..Len(heap) :
          /\ last.args = <<w2>>
          /\ heap[w2].kind = "wrapped" /\ heap[w2].cause = w1 /\ heap[w2].message = "b"
          /\ heap[w1].kind = "wrapped" /\ heap[w1].cause = r /\ heap[w1].message = "a"
          /\ heap[r].kind = "root"
          /\ Unpack(heap, w2).ErrChain = <<PartOf(heap, w2), PartOf(heap, w1)>>
          /\ Unpack(heap, w2).ErrChain[1].Message = "b"


(***************************************************************************)
(* Order of the text output.                                               *)
(***************************************************************************)
\* The text of the part of node n: a Wrapped node, the Root, or an error of
\* another package.
PartText(h, o, n) ==
    IF h[n].kind = "wrapped" THEN formatPartString(o, PartOf(h, n), "wrap")
    ELSE IF h[n].kind = "root" THEN formatPartString(o, PartOf(h, n), "root")
    ELSE ErrorText(h, n)

\* The texts q, one after the other with one empty line between two of them.
RECURSIVE Paragraphs(_)
Paragraphs(q) ==
    IF q = <<>> THEN <<<<>>>>
    ELSE IF Len(q) = 1 THEN q[1]
    ELSE q[1] \o <<<<>>>> \o Paragraphs(Tail(q))

\* C17: the text of a chain wn, ..., w1 over root r over external x (w1 nearest
\* the root) holds, when innerFirst is off, the parts of wn, ..., w1, then r,
\* then x, and when innerFirst is on, x, then r, then w1, ..., wn; each part
\* that is present appears once, and one blank line separates two consecutive
\* parts.
C17_TextOrder ==
    (last.op = "ToString" /\ last.args # <<NIL>> /\ heap[last.args[1]].kind # "joined") =>
        LET o == NewFormatter(last.ofs)
            walk == Walk(heap, last.args[1])
            texts == [i \in 1..Len(walk) |-> PartText(heap, o, walk[i])]
        IN last.ret = Paragraphs(IF o.IsInnerFirst THEN Reverse(texts) ELSE texts)

\* ToString with innerFirst has formatted Wrap(Wrap(x, "a"), "b"), x of another
\* package: the text is x, a blank line, a, a blank line, b; without
\* innerFirst it is b, a, x.
C17_Witness ==
    /\ last.op = "ToString"
    /\ last.ofs = <<FormatterOptionFunc("IsInnerFirst", TRUE)>>
    /\ last.ret = <<<<"x">>, <<>>, <<"a">>, <<>>, <<"b">>>>
    /\ ErrToString(heap, last.args[1], <<>>) = <<<<"b">>, <<>>, <<"a">>, <<>>, <<"x">>>>
    /\ Len(Walk(heap, last.args[1])) = 3


(***************************************************************************)
(* InvertTrace.                                                            *)
(***************************************************************************)
\* The heap h with the addresses of every trace in reverse order.
Inverted(h) == [n \in 1..Len(h) |-> [h[n] EXCEPT !.trace = Reverse(h[n].trace)]]

WithTraceOnly == <<FormatWithTrace>>
WithTraceInverted == <<FormatWithTrace, FormatterOptionFunc("InvertTrace", TRUE)>>

\* C18: with withTrace on, turning invertTrace on reverses the frames of every
\* trace block of the text output and of every stack array of the JSON output
\* of a chain, and changes nothing else: the output is the one produced without
\* invertTrace for the same errors with their traces reversed.
C18_InvertReversesFrames ==
    (last.args # <<NIL>> /\ last.ofs = WithTraceInverted /\
     last.op \in {"ToString", "ToJSON"} /\ heap[last.args[1]].kind # "joined") =>
        /\ last.op = "ToString" =>
              last.ret = ErrToString(Inverted(heap), last.args[1], WithTraceOnly)
        /\ last.op = "ToJSON" =>
              last.ret = ToJSON(Inverted(heap), last.args[1], WithTraceOnly)


(***************************************************************************)
(* The call site recorded.                                                 *)
(***************************************************************************)
\* C19: the call site recorded is in the user function that invoked the
\* library: the first address of the trace New captures lies in the function
\* that called New, and the frame of a Wrapped node lies in the function that
\* called Wrap.  (Stated for calls made from an application function.)
C19_CallSiteInCaller ==
    (last.op \in {"New", "Wrap"} /\ last.ret # NIL /\ last.stk[1] \notin RuntimePCs) =>
        /\ last.op = "New" =>
              /\ made[last.ret].trace0 # <<>>
              /\ FuncOf(made[last.ret].trace0[1]) = FuncOf(last.stk[1])
        /\ (last.op = "Wrap" /\ heap[last.ret].kind = "wrapped") =>
              /\ heap[last.ret].frame # NIL
              /\ FuncOf(heap[last.ret].frame) = FuncOf(last.stk[1])


(***************************************************************************)
(* insertPC.                                                               *)
(***************************************************************************)
\* The least index of s that holds x, 0 if there is none.
IndexOf(s, x) ==
    IF \E i \in 1..Len(s) : s[i] = x
    THEN CHOOSE i \in 1..Len(s) : s[i] = x /\ \A j \in 1..(i - 1) : s[j] # x
    ELSE 0

\* s with x put in front of position i.
InsertedAt(s, i, x) == SubSeq(s, 1, i - 1) \o <<x>> \o SubSeq(s, i, Len(s))

\* x occurs in s at a position below i.
OccursBefore(s, x, i) == \E j \in 1..(i - 1) : s[j] = x

\* C20 as stated: an empty capture leaves the trace unchanged; a capture of one
\* address is appended; for a capture (a, b) where b occurs in the trace and a
\* does not occur before b's first occurrence, a is inserted immediately before
\* that occurrence; where b does not occur, the trace is unchanged.
C20_Original ==
    last.op = "insertPC" =>
        LET s == last.stk
            w == last.args
            ib == IndexOf(s, w[2])
        IN /\ Len(w) = 0 => last.ret = s
           /\ Len(w) = 1 => last.ret = Append(s, w[1])
           /\ (Len(w) = 2 /\ ib # 0 /\ ~OccursBefore(s, w[1], ib)) =>
                 last.ret = InsertedAt(s, ib, w[1])
           /\ (Len(w) = 2 /\ ib = 0) => last.ret = s

\* C20: an empty capture leaves the trace unchanged; a capture of one address
\* is appended; for a capture that begins with (a, b), a # b, where b occurs in
\* the trace and a does not occur before b's first occurrence, a is inserted
\* immediately before that occurrence and the other elements keep their order;
\* where b does not occur, or a = b, the trace is unchanged.
C20_InsertPC ==
    last.op = "insertPC" =>
        LET s == last.stk
            w == last.args
            ib == IndexOf(s, w[2])
        IN /\ Len(w) = 0 => last.ret = s
           /\ Len(w) = 1 => last.ret = Append(s, w[1])
           /\ (Len(w) >= 2 /\ w[1] # w[2] /\ ib # 0 /\ ~OccursBefore(s, w[1], ib)) =>
                 last.ret = InsertedAt(s, ib, w[1])
           /\ (Len(w) >= 2 /\ (ib = 0 \/ w[1] = w[2])) => last.ret = s

\* insertPC of (2, 3) into the trace 1, 3, 3 has given 1, 2, 3, 3.
C20_Witness ==
    /\ last.op = "insertPC"
    /\ last.stk = <<1, 3, 3>> /\ last.args = <<2, 3>>
    /\ last.ret = <<1, 2, 3, 3>>


RECURSIVE BaseRoot(_, _)
BaseRoot(h, e) ==
    IF e = NIL THEN NIL
    ELSE IF h[e].kind = "root" THEN e
    ELSE IF h[e].kind = "wrapped" THEN BaseRoot(h, h[e].cause)
    ELSE NIL

\* C22: a Wrap of a Wrapped node merges the trace it captures into the trace
\* of the Root at the base of that node's chain, also when that Root has a
\* foreign cause.
C22_WrappedMergesIntoBaseRoot ==
    [][(last'.op = "Wrap" /\ last'.ret # NIL /\ heap[last'.args[1]].kind = "wrapped")
       => LET r == BaseRoot(heap, last'.args[1])
          IN r # NIL =>
                heap'[r].trace =
                    insertPC(heap[r].trace, callers(4, WrapStack(last'.stk)))]_vars


(***************************************************************************)
(* The global flag.                                                        *)
(***************************************************************************)
\* C23: New flags the Root it returns as global exactly when the call stack at
\* the moment of the call contains the runtime's initialisation function,
\* runtime.doInit.
C23_GlobalIffDoInitOnStack ==
    last.op = "New" =>
        (heap[last.ret].isGlobal <=>
            \E i \in 1..Len(last.stk) : last.stk[i] \in {PcDoInit, PcDoInit1})


RECURSIVE IsSubsequence(_, _)
IsSubsequence(s, t) ==
    IF s = <<>> THEN TRUE
    ELSE IF t = <<>> THEN FALSE
    ELSE IF Head(s) = Head(t) THEN IsSubsequence(Tail(s), Tail(t))
    ELSE IsSubsequence(s, Tail(t))

\* C25: a call of Wrap never shrinks or reorders the trace of a root that was
\* not created during package initialisation: the trace before the call is a
\* subsequence of the trace after it, which is at most one address longer.
C25_TraceOnlyGrows ==
    [][last'.op = "Wrap" =>
          \A r \in 1..Len(heap) :
              (heap[r].kind = "root" /\ ~heap[r].isGlobal) =>
                  /\ heap'[r].kind = "root"
                  /\ IsSubsequence(heap[r].trace, heap'[r].trace)
                  /\ Len(heap'[r].trace) <= Len(heap[r].trace) + 1]_vars

\* The last call wrapped a Wrapped node over a root that is not global, and the
\* root's trace holds the frames New captured and an address a Wrap merged.
C25_Witness ==
    /\ last.op = "Wrap"
    /\ last.ret # NIL
    /\ heap[last.args[1]].kind = "wrapped"
    /\ LET r == Cause(heap, last.args[1])
       IN /\ heap[r].kind = "root"
          /\ ~heap[r].isGlobal
          /\ made[r].op = "New"
          /\ made[r].trace0 # <<>>
          /\ Len(heap[r].trace) > Len(made[r].trace0)
          /\ IsSubsequence(made[r].trace0, heap[r].trace)



(***************************************************************************)
(* Concurrent wraps of one root.                                           *)
(***************************************************************************)
\* Goroutines g and k have each returned from a Wrap that merged one address
\* into the trace of the same root, from different call sites.
TwoAppends(g, k) ==
    /\ g # k
    /\ goroutine[g].pc = "done" /\ goroutine[k].pc = "done"
    /\ MergeTarget(heap, goroutine[g].e) = MergeTarget(heap, goroutine[k].e)
    /\ Len(WrapTrace(g)) = 1 /\ Len(WrapTrace(k)) = 1
    /\ WrapTrace(g) # WrapTrace(k)

\* C26: when two goroutines wrap the same root from different call sites, each
\* merge being the append of one address, and the second read the trace after
\* the first had stored it, the root's trace ends with both addresses; the
\* merge takes no lock, and the witness is the interleaving that loses one.
C26_SerialKeepsBoth ==
    \A g, k \in Goroutines :
        (TwoAppends(g, k) /\ goroutine[k].got = goroutine[g].got \o WrapTrace(g))
        => heap[MergeTarget(heap, goroutine[g].e)].trace
               = goroutine[g].got \o WrapTrace(g) \o WrapTrace(k)

\* Both goroutines read the trace before either stored it: the trace holds the
\* address of the goroutine that stored last and not the other's.
C26_Witness ==
    \E g, k \in Goroutines :
        /\ TwoAppends(g, k)
        /\ goroutine[k].got = goroutine[g].got
        /\ LET s == heap[MergeTarget(heap, goroutine[g].e)].trace
           IN /\ s = goroutine[g].got \o WrapTrace(k)
              /\ \A i \in 1..Len(s) : s[i] # WrapTrace(g)[1]



(***************************************************************************)
(* The external error in the output.                                       *)
(***************************************************************************)
\* The text of the root part and the wrap parts of an unpacked error, in the
\* order of the options, without the external error.
TextWithoutExternal(o, unpacked) ==
    LET rootPart == IF hasRootContent(unpacked.ErrRoot)
                    THEN <<formatPartString(o, unpacked.ErrRoot, "root")>> ELSE <<>>
        chain == [i \in 1..Len(unpacked.ErrChain) |->
                     formatPartString(o, unpacked.ErrChain[i], "wrap")]
    IN StringsJoin(IF o.IsInnerFirst THEN rootPart \o Reverse(chain) ELSE chain \o rootPart,
                   BlankLine)

\* C27: a formatter with WithExternal cleared that emits a root part or a wrap
\* part omits the external error: the text is that of the parts alone, and
\* the map has no "external" key beside a "root" or a "chain" key.
C27_ExternalOnlyAlone ==
    (last.op \in {"ToString", "ToJSON"} /\ ~NewFormatter(last.ofs).WithExternal)
    => LET o == NewFormatter(last.ofs)
           unpacked == Unpack(heap, last.args[1])
       IN IF last.op = "ToJSON"
          THEN "external" \in DOMAIN last.ret.m
                   => ("root" \notin DOMAIN last.ret.m /\ "chain" \notin DOMAIN last.ret.m)
          ELSE (hasRootContent(unpacked.ErrRoot) \/ Len(unpacked.ErrChain) > 0)
                   => last.ret = TextWithoutExternal(o, unpacked)



(***************************************************************************)
(* resolveToStackFrames.                                                   *)
(***************************************************************************)
\* C28: resolveToStackFrames returns one frame for each address of the stack,
\* in the stack's order: as many frames as addresses, the empty stack
\* included, the i-th frame being that of the i-th address.
C28_OneFramePerAddress ==
    last.op = "resolveToStackFrames" =>
        /\ Len(last.ret) = Len(last.stk)
        /\ \A i \in 1..Len(last.stk) :
              last.ret[i] = StackFrame(TrimmedName(last.stk[i]), last.stk[i])



(***************************************************************************)
(* Methods on a nil receiver.                                              *)
(***************************************************************************)
\* C29: a method of Root or Wrapped called on a nil receiver does not fault
\* and returns its default: Error "<nil>", Type "", Fields and StackFrames
\* nothing, Unwrap, SetType and SetField nil, and Is false for every target
\* that is not nil, of whatever variant.
C29_NilReceiverDefaults ==
    last.op \in NilMethods =>
        /\ ~last.fault
        /\ CASE last.op = "Error" -> last.ret = Str(<<"<nil>">>)
             [] last.op = "Type" -> last.ret = ""
             [] last.op = "Fields" -> last.ret = NilFields
             [] last.op = "StackFrames" -> last.ret = <<>>
             [] last.op = "Is" -> (last.args[1] # NIL => last.ret = FALSE)
             [] OTHER -> last.ret = NIL



(***************************************************************************)
(* The shape of the values.                                                *)
(***************************************************************************)
\* The nodes n links to: its cause and its children.
Links(h, n) ==
    (IF h[n].cause = NIL THEN {} ELSE {h[n].cause}) \cup
    ({h[n].errors[i] : i \in 1..Len(h[n].errors)} \ {NIL})

\* Every link of every node of h leads to a node allocated before it.
WellFounded(h) == \A n \in 1..Len(h) : \A k \in Links(h, n) : k \in 1..(n - 1)

\* The number of nodes on the longest path of links from n.
RECURSIVE Height(_, _)
Height(h, n) ==
    LET below == {Height(h, k) : k \in Links(h, n)}
    IN 1 + (IF below = {} THEN 0 ELSE CHOOSE x \in below : \A y \in below : y <= x)

\* C30: every call leaves the values finite and acyclic: each node's cause and
\* children were allocated before it and are never assigned again, so a path
\* of links from the n-th node has at most n nodes and Cause, Is, As and
\* Unpack return on every value.
C30_FiniteAcyclic ==
    [][/\ WellFounded(heap')
       /\ \A n \in 1..Len(heap) :
             /\ heap'[n].kind = heap[n].kind
             /\ heap'[n].cause = heap[n].cause
             /\ heap'[n].errors = heap[n].errors
       /\ \A n \in 1..Len(heap') :
             /\ Height(heap', n) <= n
             /\ Cause(heap', n) \in 1..n
             /\ Len(Unpack(heap', n).ErrChain) < n
             /\ \A t \in 1..Len(heap') : Is(heap', n, t) \in BOOLEAN
             /\ \A t \in Targets(heap') : Len(As(heap', n, t, <<>>).visited) >= 0]_vars

\* A Join of a root and of a Wrapped node over that root: the root is reached
\* from the joined node along two paths, the longer of three nodes.
C30_Witness ==
    \E j \in 1..Len(heap) :
        /\ heap[j].kind = "joined"
        /\ Len(heap[j].errors) = 2
        /\ heap[heap[j].errors[1]].kind = "root"
        /\ heap[heap[j].errors[2]].kind = "wrapped"
        /\ heap[heap[j].errors[2]].cause = heap[j].errors[1]
        /\ Height(heap, j) = 3

=============================================================================
